---------------------------- MODULE Spec2Model ----------------------------
(***************************************************************************)
(* A model of the ZetaChess engine core: the bitboard Position with its    *)
(* make_move / undo_move and incremental Zobrist and evaluation terms, the  *)
(* move generator, the evaluator, and the iterative-deepening searcher.     *)
(*                                                                         *)
(* Conventions.  A 64-bit mask is the set of its set bits (squares 0..63).  *)
(* Python's None is the integer -1 wherever the code stores an optional     *)
(* square or piece index.  The Zobrist keys (random 64-bit words in the     *)
(* code) are formally independent generators: a hash is the set of key      *)
(* indices that occur an odd number of times, and XOR is symmetric          *)
(* difference.  Python lists are sequences in the code's order.             *)
(***************************************************************************)
EXTENDS Integers, Sequences, FiniteSets, TLC

WHITE == 0
BLACK == 1
CR_WK == 1
CR_WQ == 2
CR_BK == 4
CR_BQ == 8
None == -1

\* ------------------------------------------------------------------ bounds
\* Longest line of moves the position walk makes from a parsed FEN.
MaxPly == 2
\* The largest depth handed to search().
MaxDepth == 3

\* ------------------------------------------------------------- bit helpers
Max(S) == CHOOSE x \in S : \A y \in S : y <= x
Min(S) == CHOOSE x \in S : \A y \in S : x <= y
Abs(x) == IF x < 0 THEN -x ELSE x
MaxInt(a, b) == IF a >= b THEN a ELSE b
MinInt(a, b) == IF a <= b THEN a ELSE b

\* (cr & bit) != 0 for a one-bit mask `bit`.
HasBit(cr, bit) == (cr \div bit) % 2 = 1
\* cr & ~bit for a one-bit mask `bit`.
ClearBit(cr, bit) == IF HasBit(cr, bit) THEN cr - bit ELSE cr

\* XOR of two hashes.
Xor(h, k) == (h \ k) \cup (k \ h)

SquareSeq == [i \in 1..64 |-> i - 1]
\* The set bits of a mask, lowest first.
iter_bits(bb) == SelectSeq(SquareSeq, LAMBDA s : s \in bb)
\* int.bit_length() - 1: the highest set bit, -1 for the empty mask.
top_bit(bb) == IF bb = {} THEN -1 ELSE Max(bb)

RECURSIVE Flatten(_)
Flatten(ss) == IF ss = <<>> THEN <<>> ELSE Head(ss) \o Flatten(Tail(ss))

\* -------------------------------------------------------------- attacks.py
KNIGHT_DELTAS ==
  << <<-2, -1>>, <<-2, 1>>, <<-1, -2>>, <<-1, 2>>,
     <<1, -2>>, <<1, 2>>, <<2, -1>>, <<2, 1>> >>
KING_DELTAS ==
  << <<-1, -1>>, <<-1, 0>>, <<-1, 1>>, <<0, -1>>,
     <<0, 1>>, <<1, -1>>, <<1, 0>>, <<1, 1>> >>

File(sq) == sq % 8
Rank(sq) == sq \div 8
sq_of(file_idx, rank_idx) == rank_idx * 8 + file_idx
in_board(file_idx, rank_idx) == file_idx \in 0..7 /\ rank_idx \in 0..7

DeltaMask(deltas, sq) ==
  { sq_of(File(sq) + deltas[i][1], Rank(sq) + deltas[i][2]) :
      i \in { j \in 1..Len(deltas) :
                in_board(File(sq) + deltas[j][1], Rank(sq) + deltas[j][2]) } }

KNIGHT_ATTACKS == [sq \in 0..63 |-> DeltaMask(KNIGHT_DELTAS, sq)]
KING_ATTACKS == [sq \in 0..63 |-> DeltaMask(KING_DELTAS, sq)]
\* PAWN_ATTACKS[side][sq]: the squares a pawn of `side` on sq attacks.
PAWN_ATTACKS ==
  [side \in {WHITE, BLACK} |->
    [sq \in 0..63 |->
      LET f == File(sq)
          r == IF side = WHITE THEN Rank(sq) + 1 ELSE Rank(sq) - 1
      IN  IF r \notin 0..7 THEN {}
          ELSE { sq_of(nf, r) : nf \in {f - 1, f + 1} \cap 0..7 }]]

\* The squares of the ray from sq in direction (df, dr), nearest first.
RaySeq(sq, delta) ==
  LET On(k) == in_board(File(sq) + k * delta[1], Rank(sq) + k * delta[2])
  IN  [k \in 1..Cardinality({ k \in 1..7 : On(k) }) |->
         sq_of(File(sq) + k * delta[1], Rank(sq) + k * delta[2])]
RAYS == [d \in 1..8 |-> [sq \in 0..63 |-> RaySeq(sq, KING_DELTAS[d])]]
\* One loop of rook_attacks / bishop_attacks: walk the ray, stop after the
\* first occupied square.
RayAttacks(sq, occ, d) ==
  LET Walk(ray) ==
        { ray[k] : k \in { j \in 1..Len(ray) : \A i \in 1..(j - 1) : ray[i] \notin occ } }
  IN  Walk(RAYS[d][sq])

rook_attacks(sq, occ) ==
  RayAttacks(sq, occ, 5) \cup RayAttacks(sq, occ, 4)
    \cup RayAttacks(sq, occ, 7) \cup RayAttacks(sq, occ, 2)
bishop_attacks(sq, occ) ==
  RayAttacks(sq, occ, 8) \cup RayAttacks(sq, occ, 3)
    \cup RayAttacks(sq, occ, 6) \cup RayAttacks(sq, occ, 1)
queen_attacks(sq, occ) == rook_attacks(sq, occ) \cup bishop_attacks(sq, occ)

\* -------------------------------------------------------------- zobrist.py
\* Key indices: piece_square[p][sq], side, castling_keys[i], ep_file_keys[f].
piece_square(p, sq) == {p * 64 + sq}
side_key == {768}
castling_keys(i) == {769 + i}
ep_file_keys(f) == {773 + f}

Zobrist_compute(pos) ==
  LET pieces == UNION { UNION { piece_square(p, sq) : sq \in pos.bitboards[p] } : p \in 0..11 }
      cr == pos.castling_rights
      h1 == IF pos.side_to_move = 1 THEN Xor(pieces, side_key) ELSE pieces
      h2 == IF HasBit(cr, 1) THEN Xor(h1, castling_keys(0)) ELSE h1
      h3 == IF HasBit(cr, 2) THEN Xor(h2, castling_keys(1)) ELSE h2
      h4 == IF HasBit(cr, 4) THEN Xor(h3, castling_keys(2)) ELSE h3
      h5 == IF HasBit(cr, 8) THEN Xor(h4, castling_keys(3)) ELSE h4
  IN  IF pos.ep_square # None THEN Xor(h5, ep_file_keys(pos.ep_square % 8)) ELSE h5

\* ----------------------------------------------------------------- eval.py
PIECE_VALUES == <<100, 320, 330, 500, 900, 0>>
PieceValue(base) == PIECE_VALUES[base + 1]
\* PHASE_WEIGHTS.get(base, 0)
PhaseWeight(base) ==
  CASE base = 1 -> 1 [] base = 2 -> 1 [] base = 3 -> 2 [] base = 4 -> 4 [] OTHER -> 0
MAX_PHASE == 24

mirror_sq(sq) == sq_of(File(sq), 7 - Rank(sq))

center_dist(f, r) ==
  MinInt(Abs(f - 3), Abs(f - 4)) + MinInt(Abs(r - 3), Abs(r - 4))

pst_white(piece_base, sq, endgame) ==
  LET Table(f, r, cd) ==
        CASE piece_base = 0 ->
               (IF endgame THEN 4 ELSE 6) * r - (IF endgame THEN 6 ELSE 8)
          [] piece_base = 1 -> (IF endgame THEN 16 ELSE 12) - 4 * cd
          [] piece_base = 2 -> (IF endgame THEN 14 ELSE 10) - 3 * cd
          [] piece_base = 3 -> (IF endgame THEN 8 ELSE 6) - Abs(2 * f - 7)
          [] piece_base = 4 -> (IF endgame THEN 8 ELSE 6) - 2 * cd
          [] piece_base = 5 -> IF endgame THEN 18 - 3 * cd ELSE -(18 - 3 * cd)
          [] OTHER -> 0
  IN  Table(File(sq), Rank(sq), center_dist(File(sq), Rank(sq)))

\* White pieces read the table at sq, black pieces at the mirrored square.
pst(piece_index, sq, endgame) ==
  pst_white(piece_index % 6, IF piece_index <= 5 THEN sq ELSE mirror_sq(sq), endgame)

RECURSIVE SumSeq(_)
SumSeq(s) == IF s = <<>> THEN 0 ELSE Head(s) + SumSeq(Tail(s))
\* The sum of F over the set bits of a mask.
SumOver(bb, F(_)) == LET q == iter_bits(bb) IN SumSeq([i \in 1..Len(q) |-> F(q[i])])

material_score(pos) ==
  SumSeq([i \in 1..12 |->
    LET p == i - 1
        v == PieceValue(p % 6) * Cardinality(pos.bitboards[p])
    IN  IF p <= 5 THEN v ELSE -v])

pst_score(pos, endgame) ==
  SumSeq([i \in 1..12 |->
    LET p == i - 1
        F(sq) == IF p <= 5 THEN pst(p, sq, endgame) ELSE -pst(p, sq, endgame)
    IN  SumOver(pos.bitboards[p], F)])

mobility_score(pos) ==
  LET own == IF pos.side_to_move = BLACK THEN pos.black_occupancy ELSE pos.white_occupancy
      occ == pos.all_occupancy
      own_b == pos.black_occupancy
      N(o, sq) == Cardinality(KNIGHT_ATTACKS[sq] \ o)
      B(o, sq) == Cardinality(bishop_attacks(sq, occ) \ o)
      R(o, sq) == Cardinality(rook_attacks(sq, occ) \ o)
      Q(o, sq) == Cardinality(queen_attacks(sq, occ) \ o)
      score_w == SumOver(pos.bitboards[1], LAMBDA sq : N(own, sq))
               + SumOver(pos.bitboards[2], LAMBDA sq : B(own, sq))
               + SumOver(pos.bitboards[3], LAMBDA sq : R(own, sq))
               + SumOver(pos.bitboards[4], LAMBDA sq : Q(own, sq))
      score_b == SumOver(pos.bitboards[7], LAMBDA sq : N(own_b, sq))
               + SumOver(pos.bitboards[8], LAMBDA sq : B(own_b, sq))
               + SumOver(pos.bitboards[9], LAMBDA sq : R(own_b, sq))
               + SumOver(pos.bitboards[10], LAMBDA sq : Q(own_b, sq))
  IN  2 * (score_w - score_b)

\* ---------------------------------------------------- moves.py (attack probe)
is_square_attacked_by(side, sq, pos) ==
  LET occ == pos.all_occupancy
      r == Rank(sq)
      f == File(sq)
      bb == pos.bitboards
      pawns ==
        IF side = WHITE
          THEN r > 0 /\ (   (f > 0 /\ (sq - 9) \in bb[0])
                         \/ (f < 7 /\ (sq - 7) \in bb[0]))
          ELSE r < 7 /\ (   (f > 0 /\ (sq + 7) \in bb[6])
                         \/ (f < 7 /\ (sq + 9) \in bb[6]))
      o == IF side = WHITE THEN 0 ELSE 6
  IN  \/ pawns
      \/ KNIGHT_ATTACKS[sq] \cap bb[o + 1] # {}
      \/ KING_ATTACKS[sq] \cap bb[o + 5] # {}
      \/ bishop_attacks(sq, occ) \cap (bb[o + 2] \cup bb[o + 4]) # {}
      \/ rook_attacks(sq, occ) \cap (bb[o + 3] \cup bb[o + 4]) # {}

\* With no king on the board bit_length() - 1 is -1, and the list index -1 is
\* the last entry, KING_ATTACKS[63].
king_safety_mg(pos) ==
  LET w_king_sq == top_bit(pos.bitboards[5])
      b_king_sq == top_bit(pos.bitboards[11])
      w_pen == Cardinality({ sq \in KING_ATTACKS[w_king_sq % 64] : is_square_attacked_by(BLACK, sq, pos) })
      b_pen == Cardinality({ sq \in KING_ATTACKS[b_king_sq % 64] : is_square_attacked_by(WHITE, sq, pos) })
  IN  -8 * (w_pen - b_pen)

game_phase_value(pos) ==
  LET phase == SumSeq([i \in 1..12 |-> PhaseWeight((i - 1) % 6) * Cardinality(pos.bitboards[i - 1])])
  IN  IF phase > MAX_PHASE THEN MAX_PHASE ELSE phase

evaluate(pos) ==
  LET Blend(mat, pst_mg, pst_eg, mob, safety, phase) ==
        LET mg == mat + pst_mg + mob + safety
            eg == mat + pst_eg + (mob \div 2)
            score == (mg * phase + eg * (MAX_PHASE - phase)) \div MAX_PHASE
        IN  IF pos.side_to_move = WHITE THEN score ELSE -score
  IN  Blend(material_score(pos), pst_score(pos, FALSE), pst_score(pos, TRUE),
            mobility_score(pos), king_safety_mg(pos), game_phase_value(pos))

\* The triple (mg, eg, phase) as a record.
eval_components(pos) ==
  LET Totals(mat, pst_mg, pst_eg, mob, safety, phase) ==
        [mg |-> mat + pst_mg + mob + safety,
         eg |-> mat + pst_eg + (mob \div 2),
         phase |-> phase]
  IN  Totals(material_score(pos), pst_score(pos, FALSE), pst_score(pos, TRUE),
             mobility_score(pos), king_safety_mg(pos), game_phase_value(pos))

\* add_piece(piece_index, sq, end) of apply_move_eval_delta: <<mg, eg>>.
add_piece(piece_index, sq, end) ==
  LET Signed(v, ps, ps_eg) ==
        IF piece_index <= 5
          THEN <<v + ps, v + ps_eg>>
          ELSE <<-v - ps, -v - ps_eg>>
  IN  Signed(PieceValue(piece_index % 6), pst(piece_index, sq, end),
             pst(piece_index, sq, TRUE))

remove_piece(piece_index, sq) ==
  LET Signed(v, ps_mg, ps_eg) ==
        IF piece_index <= 5
          THEN <<-(v + ps_mg), -(v + ps_eg)>>
          ELSE <<v + ps_mg, v + ps_eg>>
  IN  Signed(PieceValue(piece_index % 6), pst(piece_index, sq, FALSE),
             pst(piece_index, sq, TRUE))

\* pos is read for side_to_move only (the mover: make_move toggles the side
\* after this call).
apply_move_eval_delta(pos, mv, mg, eg, phase) ==
  LET side == pos.side_to_move
      dst_piece == IF mv.promotion # None THEN mv.promotion ELSE mv.piece
      \* The captured piece and its square, None when nothing is captured.
      cap_piece == IF mv.is_en_passant THEN (IF side = WHITE THEN 6 ELSE 0)
                   ELSE mv.capture_piece
      cap_sq == IF ~mv.is_en_passant THEN mv.to_sq
                ELSE IF side = WHITE THEN mv.to_sq - 8 ELSE mv.to_sq + 8
      Capture(removed) == IF cap_piece # None THEN removed ELSE <<0, 0>>
      cap_phase == IF mv.is_en_passant THEN PhaseWeight(0)
                   ELSE IF mv.capture_piece # None THEN PhaseWeight(mv.capture_piece % 6)
                   ELSE 0
      rook == IF side = WHITE THEN 3 ELSE 9
      r_from == IF side = WHITE THEN (IF mv.to_sq = 6 THEN 7 ELSE 0)
                                ELSE (IF mv.to_sq = 62 THEN 63 ELSE 56)
      r_to == IF side = WHITE THEN (IF mv.to_sq = 6 THEN 5 ELSE 3)
                              ELSE (IF mv.to_sq = 62 THEN 61 ELSE 59)
      Castle(to_mg, from_mg, to_eg, from_eg) ==
        IF ~mv.is_castling THEN <<0, 0>>
        ELSE IF side = WHITE
          THEN <<to_mg - from_mg, to_eg - from_eg>>
          ELSE <<-to_mg + from_mg, -to_eg + from_eg>>
      promo_phase == IF mv.promotion # None
                       THEN PhaseWeight(mv.promotion % 6) - PhaseWeight(0) ELSE 0
      phase_delta == cap_phase + promo_phase
      Delta(rem, add, cap, castle) ==
        [mg |-> mg + rem[1] + add[1] + cap[1] + castle[1],
         eg |-> eg + rem[2] + add[2] + cap[2] + castle[2],
         phase |-> MaxInt(0, MinInt(MAX_PHASE, phase + phase_delta))]
  IN  Delta(remove_piece(mv.piece, mv.from_sq),
            add_piece(dst_piece, mv.to_sq, FALSE),
            Capture(remove_piece(cap_piece, cap_sq)),
            Castle(pst(rook, r_to, FALSE), pst(rook, r_from, FALSE),
                   pst(rook, r_to, TRUE), pst(rook, r_from, TRUE)))

\* ------------------------------------------------------------- position.py
PieceChars == <<"P", "N", "B", "R", "Q", "K", "p", "n", "b", "r", "q", "k">>
INDEX_TO_PIECE_CHAR(p) == PieceChars[p + 1]
IsPieceChar(ch) == \E i \in 1..12 : PieceChars[i] = ch
PIECE_TO_INDEX(ch) == (CHOOSE i \in 1..12 : PieceChars[i] = ch) - 1

DigitChars == <<"0", "1", "2", "3", "4", "5", "6", "7", "8", "9">>
IsDigit(ch) == \E i \in 1..10 : DigitChars[i] = ch
DigitVal(ch) == (CHOOSE i \in 1..10 : DigitChars[i] = ch) - 1
LowerChars ==
  <<"a", "b", "c", "d", "e", "f", "g", "h", "i", "j", "k", "l", "m",
    "n", "o", "p", "q", "r", "s", "t", "u", "v", "w", "x", "y", "z">>
UpperChars ==
  <<"A", "B", "C", "D", "E", "F", "G", "H", "I", "J", "K", "L", "M",
    "N", "O", "P", "Q", "R", "S", "T", "U", "V", "W", "X", "Y", "Z">>
\* ord(ch) for the characters a FEN is written in.
Ord(ch) ==
  IF \E i \in 1..26 : LowerChars[i] = ch THEN 96 + (CHOOSE i \in 1..26 : LowerChars[i] = ch)
  ELSE IF \E i \in 1..26 : UpperChars[i] = ch THEN 64 + (CHOOSE i \in 1..26 : UpperChars[i] = ch)
  ELSE IF IsDigit(ch) THEN 48 + DigitVal(ch)
  ELSE IF ch = "/" THEN 47
  ELSE 45

\* What a raised ValueError / IndexError leaves the caller with.
Error == [error |-> TRUE]
IsError(x) == DOMAIN x = {"error"}
\* A name nothing has been bound to yet.
Unset == [none |-> TRUE]

square_index(file_idx, rank_idx) == (rank_idx - 1) * 8 + file_idx

\* int(s) for a field of an optional sign and decimal digits; Error (the
\* ValueError) for anything else.
RECURSIVE DigitsValue(_, _)
DigitsValue(chars, acc) ==
  IF chars = <<>> THEN acc ELSE DigitsValue(Tail(chars), 10 * acc + DigitVal(Head(chars)))
ParseInt(chars) ==
  LET signed == chars # <<>> /\ Head(chars) \in {"+", "-"}
      digits == IF signed THEN Tail(chars) ELSE chars
  IN  IF digits # <<>> /\ \A i \in 1..Len(digits) : IsDigit(digits[i])
        THEN [value |-> IF signed /\ Head(chars) = "-" THEN -DigitsValue(digits, 0)
                        ELSE DigitsValue(digits, 0)]
        ELSE Error

\* str(n) for an integer.
RECURSIVE NatChars(_)
NatChars(n) ==
  IF n < 10 THEN <<DigitChars[n + 1]>>
  ELSE NatChars(n \div 10) \o <<DigitChars[(n % 10) + 1]>>
str(n) == IF n < 0 THEN <<"-">> \o NatChars(-n) ELSE NatChars(n)

parse_square(sq) ==
  IF Len(sq) < 2 \/ ~IsDigit(sq[2]) THEN Error
  ELSE [value |-> square_index(Ord(sq[1]) - Ord("a"), DigitVal(sq[2]))]

\* The placement loop of from_fen: the twelve masks, or Error.
RECURSIVE ParsePlacement(_, _, _, _)
ParsePlacement(chars, rank, file_idx, bbs) ==
  IF chars = <<>> THEN [value |-> bbs]
  ELSE LET ch == Head(chars) IN
    IF ch = "/" THEN ParsePlacement(Tail(chars), rank - 1, 0, bbs)
    ELSE IF IsDigit(ch) THEN ParsePlacement(Tail(chars), rank, file_idx + DigitVal(ch), bbs)
    ELSE IF ~IsPieceChar(ch) THEN Error
    ELSE LET sq == square_index(file_idx, rank)
             idx == PIECE_TO_INDEX(ch)
             next == [bbs EXCEPT ![idx] = @ \cup {sq}]
         \* (1 << sq raises for a negative sq. The second test never fails;
         \* it has the mask computed at this step of the loop.)
         IN  IF sq < 0 \/ sq \notin next[idx] THEN Error
             ELSE ParsePlacement(Tail(chars), rank, file_idx + 1, next)

WhiteOcc(bbs) == bbs[0] \cup bbs[1] \cup bbs[2] \cup bbs[3] \cup bbs[4] \cup bbs[5]
BlackOcc(bbs) == bbs[6] \cup bbs[7] \cup bbs[8] \cup bbs[9] \cup bbs[10] \cup bbs[11]

\* [0] * 12
EmptyBoards ==
  0 :> {} @@ 1 :> {} @@ 2 :> {} @@ 3 :> {} @@ 4 :> {} @@ 5 :> {}
    @@ 6 :> {} @@ 7 :> {} @@ 8 :> {} @@ 9 :> {} @@ 10 :> {} @@ 11 :> {}

\* The occupancy masks recomputed from the twelve piece masks.
Occupancies(p, bbs) ==
  [p EXCEPT !.bitboards = bbs,
            !.white_occupancy = WhiteOcc(bbs),
            !.black_occupancy = BlackOcc(bbs),
            !.all_occupancy = WhiteOcc(bbs) \cup BlackOcc(bbs)]

\* Position.__init__
NewPosition ==
  [bitboards |-> EmptyBoards,
   white_occupancy |-> {}, black_occupancy |-> {}, all_occupancy |-> {},
   side_to_move |-> WHITE, castling_rights |-> 0, ep_square |-> None,
   halfmove_clock |-> 0, fullmove_number |-> 1,
   zobrist |-> {}, mg |-> 0, eg |-> 0, phase |-> 0,
   move_stack |-> <<>>]

\* from_fen on the whitespace-split fields, each a sequence of characters.
from_fen(parts) ==
  IF Len(parts) # 6 THEN Error
  ELSE
    LET castling == parts[3]
        Has(ch) == \E i \in 1..Len(castling) : castling[i] = ch
        cr == IF castling = <<"-">> THEN 0
              ELSE (IF Has("K") THEN CR_WK ELSE 0) + (IF Has("Q") THEN CR_WQ ELSE 0)
                 + (IF Has("k") THEN CR_BK ELSE 0) + (IF Has("q") THEN CR_BQ ELSE 0)
        Evaluated(z, ec) == [z EXCEPT !.mg = ec.mg, !.eg = ec.eg, !.phase = ec.phase]
        Hashed(base, zobrist) == [base EXCEPT !.zobrist = zobrist]
        Fields(placement, eps, hm, fm) ==
          IF IsError(placement) \/ IsError(eps) \/ IsError(hm) \/ IsError(fm) THEN Error
          ELSE [Occupancies(NewPosition, placement.value) EXCEPT
                  !.side_to_move = IF parts[2] = <<"w">> THEN WHITE ELSE BLACK,
                  !.castling_rights = cr,
                  !.ep_square = eps.value,
                  !.halfmove_clock = hm.value,
                  !.fullmove_number = fm.value]
        Finish(base) ==
          IF IsError(base) THEN Error
          ELSE LET WithEval(z) == Evaluated(z, eval_components(z))
               IN  WithEval(Hashed(base, Zobrist_compute(base)))
    IN  Finish(Fields(ParsePlacement(parts[1], 8, 0, EmptyBoards),
                      IF parts[4] = <<"-">> THEN [value |-> None] ELSE parse_square(parts[4]),
                      ParseInt(parts[5]), ParseInt(parts[6])))

\* One rank of to_fen's placement, from file_idx on with `empties` pending.
RECURSIVE FenRow(_, _, _, _)
FenRow(bbs, rank, file_idx, empties) ==
  LET flush == IF empties > 0 THEN str(empties) ELSE <<>>
      here == { p \in 0..11 : square_index(file_idx, rank) \in bbs[p] }
  IN  IF file_idx = 8 THEN flush
      ELSE IF here = {} THEN FenRow(bbs, rank, file_idx + 1, empties + 1)
      ELSE flush \o <<INDEX_TO_PIECE_CHAR(Min(here))>> \o FenRow(bbs, rank, file_idx + 1, 0)

\* '/'.join(rows) for the ranks from `rank` down to 1.
RECURSIVE FenRows(_, _)
FenRows(bbs, rank) ==
  IF rank = 1 THEN FenRow(bbs, 1, 0, 0)
  ELSE FenRow(bbs, rank, 0, 0) \o <<"/">> \o FenRows(bbs, rank - 1)

square_name(sq) == <<LowerChars[(sq % 8) + 1]>> \o str((sq \div 8) + 1)

castling_string_BlackFirst(castling_rights) ==
  IF castling_rights = 0 THEN <<"-">>
  ELSE (IF HasBit(castling_rights, CR_BK) THEN <<"k">> ELSE <<>>)
    \o (IF HasBit(castling_rights, CR_BQ) THEN <<"q">> ELSE <<>>)
    \o (IF HasBit(castling_rights, CR_WK) THEN <<"K">> ELSE <<>>)
    \o (IF HasBit(castling_rights, CR_WQ) THEN <<"Q">> ELSE <<>>)

castling_string(castling_rights) ==
  IF castling_rights = 0 THEN <<"-">>
  ELSE (IF HasBit(castling_rights, CR_WK) THEN <<"K">> ELSE <<>>)
    \o (IF HasBit(castling_rights, CR_WQ) THEN <<"Q">> ELSE <<>>)
    \o (IF HasBit(castling_rights, CR_BK) THEN <<"k">> ELSE <<>>)
    \o (IF HasBit(castling_rights, CR_BQ) THEN <<"q">> ELSE <<>>)

\* to_fen: the six fields of the string it formats, in order.
to_fen(pos) ==
  << FenRows(pos.bitboards, 8),
     IF pos.side_to_move = WHITE THEN <<"w">> ELSE <<"b">>,
     castling_string(pos.castling_rights),
     IF pos.ep_square = None THEN <<"-">> ELSE square_name(pos.ep_square),
     str(pos.halfmove_clock),
     str(pos.fullmove_number) >>

\* clone(): every field but the undo stack, which starts empty.
clone(pos) == [pos EXCEPT !.move_stack = <<>>]

\* The "Castling rook move" block of make_move: <<rook index, from, to>>.
CastleRook(side, to_sq) ==
  IF side = WHITE
    THEN (IF to_sq = 6 THEN <<3, 7, 5>> ELSE <<3, 0, 3>>)
    ELSE (IF to_sq = 62 THEN <<9, 63, 61>> ELSE <<9, 56, 59>>)

\* A faulty variant of RightsAfter that forgets the rook captured on its home
\* square.
RightsAfter_IgnoresCapture(prev_cr, side, mv) ==
  IF side = WHITE THEN
    IF mv.piece = 5 THEN ClearBit(ClearBit(prev_cr, CR_WK), CR_WQ)
    ELSE IF mv.piece = 3 THEN
      (IF mv.from_sq = 0 THEN ClearBit(prev_cr, CR_WQ)
       ELSE IF mv.from_sq = 7 THEN ClearBit(prev_cr, CR_WK) ELSE prev_cr)
    ELSE prev_cr
  ELSE
    IF mv.piece = 11 THEN ClearBit(ClearBit(prev_cr, CR_BK), CR_BQ)
    ELSE IF mv.piece = 9 THEN
      (IF mv.from_sq = 56 THEN ClearBit(prev_cr, CR_BQ)
       ELSE IF mv.from_sq = 63 THEN ClearBit(prev_cr, CR_BK) ELSE prev_cr)
    ELSE prev_cr

\* The castling rights a move leaves (make_move and apply_move_clone share
\* these rules).
RightsAfter(prev_cr, side, mv) ==
  IF side = WHITE THEN
    LET c1 == IF mv.piece = 5 THEN ClearBit(ClearBit(prev_cr, CR_WK), CR_WQ)
              ELSE IF mv.piece = 3 THEN
                (IF mv.from_sq = 0 THEN ClearBit(prev_cr, CR_WQ)
                 ELSE IF mv.from_sq = 7 THEN ClearBit(prev_cr, CR_WK) ELSE prev_cr)
              ELSE prev_cr
    IN  IF mv.capture_piece = 9 THEN
          (IF mv.to_sq = 56 THEN ClearBit(c1, CR_BQ)
           ELSE IF mv.to_sq = 63 THEN ClearBit(c1, CR_BK) ELSE c1)
        ELSE c1
  ELSE
    LET c1 == IF mv.piece = 11 THEN ClearBit(ClearBit(prev_cr, CR_BK), CR_BQ)
              ELSE IF mv.piece = 9 THEN
                (IF mv.from_sq = 56 THEN ClearBit(prev_cr, CR_BQ)
                 ELSE IF mv.from_sq = 63 THEN ClearBit(prev_cr, CR_BK) ELSE prev_cr)
              ELSE prev_cr
    IN  IF mv.capture_piece = 3 THEN
          (IF mv.to_sq = 0 THEN ClearBit(c1, CR_WQ)
           ELSE IF mv.to_sq = 7 THEN ClearBit(c1, CR_WK) ELSE c1)
        ELSE c1

\* A faulty variant of BoardsAfter that leaves a captured piece on its square.
BoardsAfter_KeepsCaptured(bbs, side, mv) ==
  LET dst_piece == IF mv.promotion # None THEN mv.promotion ELSE mv.piece
      rk == CastleRook(side, mv.to_sq)
      Lift(b) == [b EXCEPT ![mv.piece] = @ \ {mv.from_sq}]
      Drop(b) == [b EXCEPT ![dst_piece] = @ \cup {mv.to_sq}]
      Rook(b) == IF mv.is_castling
                   THEN [b EXCEPT ![rk[1]] = (@ \ {rk[2]}) \cup {rk[3]}] ELSE b
  IN  Rook(Drop(Lift(bbs)))

\* The twelve masks after the piece mutations of make_move (and of
\* apply_move_clone, which performs the same ones in the same order): the
\* piece leaves from_sq, the captured piece goes, the piece (or the promoted
\* one) lands on to_sq, the castling rook moves.
BoardsAfter(bbs, side, mv) ==
  LET dst_piece == IF mv.promotion # None THEN mv.promotion ELSE mv.piece
      rk == CastleRook(side, mv.to_sq)
      Lift(b) == [b EXCEPT ![mv.piece] = @ \ {mv.from_sq}]
      Take(b) == IF mv.is_en_passant
                   THEN IF side = WHITE THEN [b EXCEPT ![6] = @ \ {mv.to_sq - 8}]
                                        ELSE [b EXCEPT ![0] = @ \ {mv.to_sq + 8}]
                 ELSE IF mv.capture_piece # None
                   THEN [b EXCEPT ![mv.capture_piece] = @ \ {mv.to_sq}]
                 ELSE b
      Drop(b) == [b EXCEPT ![dst_piece] = @ \cup {mv.to_sq}]
      Rook(b) == IF mv.is_castling
                   THEN [b EXCEPT ![rk[1]] = (@ \ {rk[2]}) \cup {rk[3]}] ELSE b
  IN  Rook(Drop(Take(Lift(bbs))))

\* The Zobrist hash after the incremental toggles of make_move, in the order
\* make_move performs them.
ZobristAfter(pos, mv, cr) ==
  LET side == pos.side_to_move
      dst_piece == IF mv.promotion # None THEN mv.promotion ELSE mv.piece
      rk == CastleRook(side, mv.to_sq)
      prev_cr == pos.castling_rights
      ep_new == IF side = WHITE THEN mv.from_sq + 8 ELSE mv.from_sq - 8
      OldEp(z) == IF pos.ep_square # None
                    THEN Xor(z, ep_file_keys(pos.ep_square % 8)) ELSE z
      Lift(z) == Xor(z, piece_square(mv.piece, mv.from_sq))
      Take(z) == IF mv.is_en_passant
                   THEN IF side = WHITE THEN Xor(z, piece_square(6, mv.to_sq - 8))
                                        ELSE Xor(z, piece_square(0, mv.to_sq + 8))
                 ELSE IF mv.capture_piece # None
                   THEN Xor(z, piece_square(mv.capture_piece, mv.to_sq))
                 ELSE z
      Drop(z) == Xor(z, piece_square(dst_piece, mv.to_sq))
      Rook(z) == IF mv.is_castling
                   THEN Xor(Xor(z, piece_square(rk[1], rk[2])), piece_square(rk[1], rk[3]))
                   ELSE z
      toggle_cr(z, bit, key_idx) ==
        IF HasBit(prev_cr, bit) # HasBit(cr, bit) THEN Xor(z, castling_keys(key_idx)) ELSE z
      Rights(z) == toggle_cr(toggle_cr(toggle_cr(toggle_cr(z, CR_WK, 0), CR_WQ, 1), CR_BK, 2), CR_BQ, 3)
      NewEp(z) == IF mv.is_double_push THEN Xor(z, ep_file_keys(ep_new % 8)) ELSE z
  IN  Xor(NewEp(Rights(Rook(Drop(Take(Lift(OldEp(pos.zobrist))))))), side_key)

UndoEntry(pos, mv) ==
  [move |-> mv,
   prev_ep_square |-> pos.ep_square,
   prev_castling_rights |-> pos.castling_rights,
   prev_halfmove_clock |-> pos.halfmove_clock,
   prev_fullmove_number |-> pos.fullmove_number,
   prev_zobrist |-> pos.zobrist,
   prev_mg |-> pos.mg,
   prev_eg |-> pos.eg,
   prev_phase |-> pos.phase,
   prev_side_to_move |-> pos.side_to_move]

\* A faulty variant of make_move that leaves a set ep square standing when
\* the move is not a double push.
make_move_KeepsEp(pos, mv) ==
  LET side == pos.side_to_move
      Made(bbs, cr, ev) ==
        [Occupancies(pos, bbs) EXCEPT
           !.side_to_move = 1 - side,
           !.castling_rights = cr,
           !.ep_square = IF mv.is_double_push
                           THEN (IF side = WHITE THEN mv.from_sq + 8 ELSE mv.from_sq - 8)
                           ELSE @,
           !.halfmove_clock = IF mv.piece \in {0, 6} \/ mv.capture_piece # None \/ mv.is_en_passant
                                THEN 0 ELSE @ + 1,
           !.fullmove_number = IF side = BLACK THEN @ + 1 ELSE @,
           !.zobrist = ZobristAfter(pos, mv, cr),
           !.mg = ev.mg, !.eg = ev.eg, !.phase = ev.phase,
           !.move_stack = Append(@, UndoEntry(pos, mv))]
  IN  Made(BoardsAfter(pos.bitboards, side, mv),
           RightsAfter(pos.castling_rights, side, mv),
           apply_move_eval_delta(pos, mv, pos.mg, pos.eg, pos.phase))

make_move(pos, mv) ==
  LET side == pos.side_to_move
      Made(bbs, cr, ev) ==
        [Occupancies(pos, bbs) EXCEPT
           !.side_to_move = 1 - side,
           !.castling_rights = cr,
           !.ep_square = IF mv.is_double_push
                           THEN (IF side = WHITE THEN mv.from_sq + 8 ELSE mv.from_sq - 8)
                           ELSE None,
           !.halfmove_clock = IF mv.piece \in {0, 6} \/ mv.capture_piece # None \/ mv.is_en_passant
                                THEN 0 ELSE @ + 1,
           !.fullmove_number = IF side = BLACK THEN @ + 1 ELSE @,
           !.zobrist = ZobristAfter(pos, mv, cr),
           !.mg = ev.mg, !.eg = ev.eg, !.phase = ev.phase,
           !.move_stack = Append(@, UndoEntry(pos, mv))]
  IN  Made(BoardsAfter(pos.bitboards, side, mv),
           RightsAfter(pos.castling_rights, side, mv),
           apply_move_eval_delta(pos, mv, pos.mg, pos.eg, pos.phase))

\* The body of undo_move after its empty-stack test.
undo_move(pos) ==
  LET u == pos.move_stack[Len(pos.move_stack)]
      mv == u.move
      side == u.prev_side_to_move
      rk == CastleRook(side, mv.to_sq)
      dst_piece == IF mv.promotion # None THEN mv.promotion ELSE mv.piece
      Rook(b) == IF mv.is_castling
                   THEN [b EXCEPT ![rk[1]] = (@ \ {rk[3]}) \cup {rk[2]}] ELSE b
      Lift(b) == [b EXCEPT ![dst_piece] = @ \ {mv.to_sq}]
      Restore(b) == IF mv.is_en_passant
                      THEN IF side = WHITE THEN [b EXCEPT ![6] = @ \cup {mv.to_sq - 8}]
                                           ELSE [b EXCEPT ![0] = @ \cup {mv.to_sq + 8}]
                    ELSE IF mv.capture_piece # None
                      THEN [b EXCEPT ![mv.capture_piece] = @ \cup {mv.to_sq}]
                    ELSE b
      Drop(b) == [b EXCEPT ![mv.piece] = @ \cup {mv.from_sq}]
  IN  [Occupancies(pos, Drop(Restore(Lift(Rook(pos.bitboards))))) EXCEPT
         !.side_to_move = u.prev_side_to_move,
         !.castling_rights = u.prev_castling_rights,
         !.ep_square = u.prev_ep_square,
         !.halfmove_clock = u.prev_halfmove_clock,
         !.fullmove_number = u.prev_fullmove_number,
         !.zobrist = u.prev_zobrist,
         !.mg = u.prev_mg, !.eg = u.prev_eg, !.phase = u.prev_phase,
         !.move_stack = SubSeq(@, 1, Len(@) - 1)]

undo_move_call_RestoresFirst(pos) ==
  IF pos.move_stack = <<>>
    THEN [raised |-> TRUE, pos |-> [pos EXCEPT !.side_to_move = 1 - @]]
    ELSE [raised |-> FALSE, pos |-> undo_move(pos)]

\* undo_move as a call: the IndexError of an empty undo stack, raised before
\* anything is assigned, or the position with the last move taken back.
undo_move_call(pos) ==
  IF pos.move_stack = <<>>
    THEN [raised |-> TRUE, pos |-> pos]
    ELSE [raised |-> FALSE, pos |-> undo_move(pos)]

\* piece_at(sq): the first of the twelve masks that holds sq, else None.
piece_at(pos, sq) ==
  IF \E p \in 0..11 : sq \in pos.bitboards[p]
    THEN Min({ p \in 0..11 : sq \in pos.bitboards[p] })
    ELSE None

\* ---------------------------------------------------------------- moves.py
Move(from_sq, to_sq, piece, capture_piece, promotion, ep, castling, dp) ==
  [from_sq |-> from_sq, to_sq |-> to_sq, piece |-> piece,
   capture_piece |-> capture_piece, promotion |-> promotion,
   is_en_passant |-> ep, is_castling |-> castling, is_double_push |-> dp]
Quiet(from_sq, to_sq, piece) == Move(from_sq, to_sq, piece, None, None, FALSE, FALSE, FALSE)
Capture(from_sq, to_sq, piece, cap) == Move(from_sq, to_sq, piece, cap, None, FALSE, FALSE, FALSE)
Promo(from_sq, to_sq, piece, cap, promo) == Move(from_sq, to_sq, piece, cap, promo, FALSE, FALSE, FALSE)

own_occ(pos) == IF pos.side_to_move = WHITE THEN pos.white_occupancy ELSE pos.black_occupancy
opp_occ(pos) == IF pos.side_to_move = WHITE THEN pos.black_occupancy ELSE pos.white_occupancy

PROMOTION_MAP(side) == IF side = WHITE THEN <<4, 3, 2, 1>> ELSE <<10, 9, 8, 7>>

\* The moves of one pawn of `side` on sq, in the order the code appends them.
PawnMoves(pos, side, sq) ==
  LET occ == pos.all_occupancy
      opp == opp_occ(pos)
      me == IF side = WHITE THEN 0 ELSE 6
      r == Rank(sq)
      fwd == IF side = WHITE THEN 8 ELSE -8
      to1 == sq + fwd
      to2 == sq + 2 * fwd
      promo_rank == IF side = WHITE THEN 6 ELSE 1
      start_rank == IF side = WHITE THEN 1 ELSE 6
      pm == PROMOTION_MAP(side)
      push ==
        IF to1 \in 0..63 /\ to1 \notin occ
          THEN IF r = promo_rank
                 THEN [i \in 1..4 |-> Promo(sq, to1, me, None, pm[i])]
                 ELSE <<Quiet(sq, to1, me)>>
                      \o (IF r = start_rank /\ (side = WHITE \/ to2 >= 0) /\ to2 \notin occ
                            THEN <<Move(sq, to2, me, None, None, FALSE, FALSE, TRUE)>>
                            ELSE <<>>)
          ELSE <<>>
      dests == IF side = WHITE THEN <<sq + 7, sq + 9>> ELSE <<sq - 7, sq - 9>>
      CapAt(dest) ==
        IF dest \in 0..63 /\ Abs(File(dest) - File(sq)) = 1 /\ dest \in opp
          THEN IF r = promo_rank
                 THEN [i \in 1..4 |-> Promo(sq, dest, me, piece_at(pos, dest), pm[i])]
                 ELSE <<Capture(sq, dest, me, piece_at(pos, dest))>>
          ELSE <<>>
      ep == pos.ep_square
      enp ==
        IF ep # None /\ ep \in {dests[1], dests[2]} /\ Abs(File(ep) - File(sq)) = 1
          THEN <<Move(sq, ep, me, IF side = WHITE THEN 6 ELSE 0, None, TRUE, FALSE, FALSE)>>
          ELSE <<>>
  IN  push \o CapAt(dests[1]) \o CapAt(dests[2]) \o enp

\* The moves of one knight, bishop, rook, queen or king on sq to the squares
\* of the mask dests.
PieceMoves(pos, piece, sq, dests) ==
  LET opp == opp_occ(pos)
      q == iter_bits(dests)
  IN  [i \in 1..Len(q) |->
        Capture(sq, q[i], piece, IF q[i] \in opp THEN piece_at(pos, q[i]) ELSE None)]

generate_castling(pos) ==
  LET side == pos.side_to_move
      occ == pos.all_occupancy
      cr == pos.castling_rights
      bb == pos.bitboards
      Att(s, sq) == is_square_attacked_by(s, sq, pos)
  IN  IF side = WHITE THEN
        (IF HasBit(cr, CR_WK) /\ 5 \notin occ /\ 6 \notin occ /\ 7 \in bb[3]
            /\ ~Att(BLACK, 4) /\ ~Att(BLACK, 5) /\ ~Att(BLACK, 6)
           THEN <<Move(4, 6, 5, None, None, FALSE, TRUE, FALSE)>> ELSE <<>>)
        \o
        (IF HasBit(cr, CR_WQ) /\ 3 \notin occ /\ 2 \notin occ /\ 1 \notin occ /\ 0 \in bb[3]
            /\ ~Att(BLACK, 4) /\ ~Att(BLACK, 3) /\ ~Att(BLACK, 2)
           THEN <<Move(4, 2, 5, None, None, FALSE, TRUE, FALSE)>> ELSE <<>>)
      ELSE
        (IF HasBit(cr, CR_BK) /\ 61 \notin occ /\ 62 \notin occ /\ 63 \in bb[9]
            /\ ~Att(WHITE, 60) /\ ~Att(WHITE, 61) /\ ~Att(WHITE, 62)
           THEN <<Move(60, 62, 11, None, None, FALSE, TRUE, FALSE)>> ELSE <<>>)
        \o
        (IF HasBit(cr, CR_BQ) /\ 59 \notin occ /\ 58 \notin occ /\ 57 \notin occ /\ 56 \in bb[9]
            /\ ~Att(WHITE, 60) /\ ~Att(WHITE, 59) /\ ~Att(WHITE, 58)
           THEN <<Move(60, 58, 11, None, None, FALSE, TRUE, FALSE)>> ELSE <<>>)

generate_pseudo_legal_moves(pos) ==
  LET side == pos.side_to_move
      own == own_occ(pos)
      occ == pos.all_occupancy
      o == IF side = WHITE THEN 0 ELSE 6
      bb == pos.bitboards
      Each(piece, F(_)) ==
        LET q == iter_bits(bb[piece]) IN Flatten([i \in 1..Len(q) |-> F(q[i])])
      pawns == Each(o, LAMBDA sq : PawnMoves(pos, side, sq))
      knights == Each(o + 1, LAMBDA sq : PieceMoves(pos, o + 1, sq, KNIGHT_ATTACKS[sq] \ own))
      bishops == Each(o + 2, LAMBDA sq : PieceMoves(pos, o + 2, sq, bishop_attacks(sq, occ) \ own))
      rooks == Each(o + 3, LAMBDA sq : PieceMoves(pos, o + 3, sq, rook_attacks(sq, occ) \ own))
      queens == Each(o + 4, LAMBDA sq : PieceMoves(pos, o + 4, sq, queen_attacks(sq, occ) \ own))
      king_sq == top_bit(bb[o + 5])
      king == PieceMoves(pos, o + 5, king_sq, KING_ATTACKS[king_sq] \ own)
  IN  pawns \o knights \o bishops \o rooks \o queens \o king \o generate_castling(pos)

\* The copy-make path: a clone with the move applied and the Zobrist hash
\* recomputed; mg, eg and phase are the clone's, left as they were.
apply_move_clone(pos, mv) ==
  LET side == pos.side_to_move
      dst_piece == IF mv.promotion # None THEN mv.promotion ELSE mv.piece
      Lift(b) == [b EXCEPT ![mv.piece] = @ \ {mv.from_sq}]
      Take(b) == IF mv.is_en_passant
                   THEN IF side = WHITE THEN [b EXCEPT ![6] = @ \ {mv.to_sq - 8}]
                                        ELSE [b EXCEPT ![0] = @ \ {mv.to_sq + 8}]
                 ELSE IF mv.capture_piece # None
                   THEN [b EXCEPT ![mv.capture_piece] = @ \ {mv.to_sq}]
                 ELSE b
      Drop(b) == [b EXCEPT ![dst_piece] = @ \cup {mv.to_sq}]
      Rook(b) == IF ~mv.is_castling THEN b
                 ELSE IF side = WHITE
                   THEN IF mv.to_sq = 6 THEN [b EXCEPT ![3] = (@ \ {7}) \cup {5}]
                                        ELSE [b EXCEPT ![3] = (@ \ {0}) \cup {3}]
                   ELSE IF mv.to_sq = 62 THEN [b EXCEPT ![9] = (@ \ {63}) \cup {61}]
                                         ELSE [b EXCEPT ![9] = (@ \ {56}) \cup {59}]
      Moved(new) ==
        [Occupancies(new, Rook(Drop(Take(Lift(new.bitboards))))) EXCEPT
           !.castling_rights = RightsAfter(@, side, mv),
           !.ep_square = IF mv.is_double_push
                           THEN (IF side = WHITE THEN mv.from_sq + 8 ELSE mv.from_sq - 8)
                           ELSE None,
           !.halfmove_clock =
              IF mv.piece \in {0, 6} \/ mv.capture_piece # None \/ mv.is_en_passant
                THEN 0 ELSE @ + 1,
           !.fullmove_number = IF side = BLACK THEN @ + 1 ELSE @,
           !.side_to_move = 1 - side]
      Hashed(moved) == [moved EXCEPT !.zobrist = Zobrist_compute(moved)]
  IN  Hashed(Moved(clone(pos)))

\* A faulty variant of KeepsKingSafe that looks at the king before the move.
KeepsKingSafe_BeforeMove(pos, mv) ==
  IF pos.side_to_move = WHITE
    THEN ~is_square_attacked_by(BLACK, top_bit(pos.bitboards[5]), pos)
    ELSE ~is_square_attacked_by(WHITE, top_bit(pos.bitboards[11]), pos)

\* The test generate_legal_moves applies to one pseudo-legal move.
KeepsKingSafe(pos, mv) ==
  LET Safe(after) ==
        IF after.side_to_move = WHITE
          THEN ~is_square_attacked_by(WHITE, top_bit(after.bitboards[11]), after)
          ELSE ~is_square_attacked_by(BLACK, top_bit(after.bitboards[5]), after)
  IN  Safe(apply_move_clone(pos, mv))

generate_legal_moves_Unfiltered(pos) == generate_pseudo_legal_moves(pos)

generate_legal_moves(pos) ==
  SelectSeq(generate_pseudo_legal_moves(pos), LAMBDA mv : KeepsKingSafe(pos, mv))

\* ----------------------------------------------------------- eval.py: see
min_bit(bb) == Min(bb)

\* _get_smallest_attacker: <<piece index, from square>> of the cheapest piece
\* of `side` that attacks sq on the occupancy occ, or <<>> for None.
get_smallest_attacker(pos, sq, side, occ) ==
  LET start == IF side = WHITE THEN 0 ELSE 6
      bb == pos.bitboards
      pawns == PAWN_ATTACKS[1 - side][sq] \cap bb[start] \cap occ
      knights == KNIGHT_ATTACKS[sq] \cap bb[start + 1] \cap occ
      bishops == bishop_attacks(sq, occ) \cap bb[start + 2] \cap occ
      rooks == rook_attacks(sq, occ) \cap bb[start + 3] \cap occ
      queens == queen_attacks(sq, occ) \cap bb[start + 4] \cap occ
      kings == KING_ATTACKS[sq] \cap bb[start + 5] \cap occ
  IN  IF pawns # {} THEN <<start, min_bit(pawns)>>
      ELSE IF knights # {} THEN <<start + 1, min_bit(knights)>>
      ELSE IF bishops # {} THEN <<start + 2, min_bit(bishops)>>
      ELSE IF rooks # {} THEN <<start + 3, min_bit(rooks)>>
      ELSE IF queens # {} THEN <<start + 4, min_bit(queens)>>
      ELSE IF kings # {} THEN <<start + 5, min_bit(kings)>>
      ELSE <<>>

\* The first loop of see: gain is the list gain[0..d] (1-based here), side
\* the side that moved last. Returns <<gain, d>> as the loop leaves them.
RECURSIVE SeeExchange(_, _, _, _, _, _, _)
SeeExchange(pos, to_sq, side, occ, attacker_piece_idx, gain, d) ==
  LET d1 == d + 1
      side1 == 1 - side
      Exchange(att) ==
        IF att = <<>> THEN <<Append(gain, 0), d1>>
        ELSE
          LET g == PieceValue(attacker_piece_idx % 6) - gain[d1]
          IN  IF g < 0 /\ gain[d1] < 0 THEN <<Append(gain, g), d1>>
              ELSE SeeExchange(pos, to_sq, side1, Xor(occ, {att[2]}), att[1],
                               Append(gain, g), d1)
  IN  Exchange(get_smallest_attacker(pos, to_sq, side1, occ))

\* The second loop of see: fold the gains back to gain[0].
RECURSIVE SeeUnroll(_, _)
SeeUnroll(gain, d) ==
  IF d > 1
    THEN SeeUnroll([gain EXCEPT ![d - 1] = -MaxInt(-gain[d - 1], gain[d])], d - 1)
    ELSE gain[1]

see(pos, mv) ==
  LET side == pos.side_to_move
      captured_piece_idx == IF mv.is_en_passant THEN (IF side = WHITE THEN 0 ELSE 6)
                            ELSE mv.capture_piece
      Unrolled(ex) == SeeUnroll(ex[1], ex[2])
  IN  IF captured_piece_idx = None THEN 0
      ELSE Unrolled(SeeExchange(pos, mv.to_sq, side, Xor(pos.all_occupancy, {mv.from_sq}),
                                mv.piece, <<PieceValue(captured_piece_idx % 6)>>, 0))

\* --------------------------------------------------------------- search.py
MATE_SCORE == 1000000
EXACT == 0
LOWER == 1
UPPER == 2
\* The deadline is polled when nodes % 2048 == 0.
NODE_BATCH == 2048

\* Optional[Move] = None.
NoMove == Move(None, None, None, None, None, FALSE, FALSE, FALSE)

\* The tuple (from_sq, to_sq, promotion) that keys see_cache and killers.
MoveKey(mv) == <<mv.from_sq, mv.to_sq, mv.promotion>>

TTEntry(key, depth, score, flag, best_move) ==
  [key |-> key, depth |-> depth, score |-> score, flag |-> flag, best_move |-> best_move]

\* dict.get(k, default) on a dict held as a function.
DictGet(dict, k, default) == IF k \in DOMAIN dict THEN dict[k] ELSE default
\* dict[k] = v
DictSet(dict, k, v) == (k :> v) @@ dict
EmptyDict == <<>>

in_check(pos) ==
  LET side == pos.side_to_move
      king_sq == top_bit(pos.bitboards[IF side = WHITE THEN 5 ELSE 11])
  IN  is_square_attacked_by(1 - side, king_sq, pos)

is_quiet(mv) == mv.capture_piece = None /\ ~mv.is_en_passant /\ mv.promotion = None

has_non_pawn_material(pos, side) ==
  IF side = WHITE
    THEN (pos.bitboards[1] \cup pos.bitboards[2] \cup pos.bitboards[3] \cup pos.bitboards[4]) # {}
    ELSE (pos.bitboards[7] \cup pos.bitboards[8] \cup pos.bitboards[9] \cup pos.bitboards[10]) # {}

\* _get_see_score: the score and the see_cache it leaves.
get_see_score(see_cache, pos, mv) ==
  LET key == MoveKey(mv)
      Cached(score) == [score |-> score, see_cache |-> DictSet(see_cache, key, score)]
  IN  IF key \in DOMAIN see_cache
        THEN [score |-> see_cache[key], see_cache |-> see_cache]
        ELSE Cached(IF mv.is_en_passant THEN PieceValue(0)
                    ELSE IF mv.capture_piece # None THEN see(pos, mv)
                    ELSE 0)

\* The loop of _move_order over moves[i..]: the scores so far and the cache.
RECURSIVE MoveScores(_, _, _, _, _, _, _, _)
MoveScores(killers, history, pos, moves, tt_move, ply, i, acc) ==
  IF i > Len(moves) THEN acc
  ELSE
    LET mv == moves[i]
        is_tt == /\ tt_move # NoMove
                 /\ mv.from_sq = tt_move.from_sq
                 /\ mv.to_sq = tt_move.to_sq
                 /\ mv.promotion = tt_move.promotion
        is_capture == mv.capture_piece # None \/ mv.is_en_passant
        km == DictGet(killers, ply, <<>>)
        killer == IF km = <<>> THEN 0
                  ELSE IF MoveKey(mv) = km[1] THEN 80000
                  ELSE IF Len(km) > 1 /\ MoveKey(mv) = km[2] THEN 70000
                  ELSE 0
        Scored(sc) ==
          [scores |-> Append(acc.scores,
                        IF is_tt THEN 100000
                        ELSE IF mv.promotion # None THEN 500 + PieceValue(mv.promotion % 6)
                        ELSE IF is_capture
                          THEN (IF sc.score >= 0 THEN 1000 + sc.score ELSE -1000 + sc.score)
                        ELSE killer + DictGet(history, <<mv.from_sq, mv.to_sq>>, 0)),
           see_cache |-> IF ~is_tt /\ mv.promotion = None /\ is_capture
                           THEN sc.see_cache ELSE acc.see_cache]
    IN  MoveScores(killers, history, pos, moves, tt_move, ply, i + 1,
                   Scored(get_see_score(acc.see_cache, pos, mv)))

\* sorted(moves, key=scores, reverse=True): stable, highest score first.
SortedByScore(moves, scores) ==
  LET n == Len(moves)
      rank(i) == 1 + Cardinality({ j \in 1..n :
                       scores[j] > scores[i] \/ (scores[j] = scores[i] /\ j < i) })
  IN  [k \in 1..n |-> moves[CHOOSE i \in 1..n : rank(i) = k]]

\* _move_order: the ordered list and the see_cache it leaves (cleared first).
move_order(killers, history, pos, moves, tt_move, ply) ==
  LET Ordered(res) ==
        [ordered |-> SortedByScore(moves, res.scores), see_cache |-> res.see_cache]
  IN  Ordered(MoveScores(killers, history, pos, moves, tt_move, ply, 1,
                         [scores |-> <<>>, see_cache |-> EmptyDict]))

\* ------------------------------------------------ search.py: the call tree
\* The worker's state is the bundle M: the root position object pos, the
\* clones made for null moves (null_pos, innermost last), the Search object
\* self, the stack of alphabeta / qsearch activations (innermost last), the
\* locals loc of search() and its position pc.
\*
\* One activation. pc is "enter" before its first statement and otherwise the
\* call it made last, whose value is in ret; obj is 0 for the root position
\* object and k for null_pos[k].
Frame(fn, obj, depth, alpha, beta, ply) ==
  [fn |-> fn, pc |-> "enter", obj |-> obj, depth |-> depth,
   alpha |-> alpha, beta |-> beta, ply |-> ply,
   key |-> {}, tt_move |-> NoMove, in_check |-> FALSE,
   ordered |-> <<>>, idx |-> 0, stand_pat |-> 0, a0 |-> 0,
   best_score |-> 0, best_move |-> NoMove, reduce |-> FALSE, r |-> 0, ret |-> 0]

Top(M) == M.stack[Len(M.stack)]
SetTop(M, f) == [M EXCEPT !.stack[Len(M.stack)] = f]
Obj(M, f) == IF f.obj = 0 THEN M.pos ELSE M.null_pos[f.obj]
SetObj(M, f, p) ==
  IF f.obj = 0 THEN [M EXCEPT !.pos = p] ELSE [M EXCEPT !.null_pos[f.obj] = p]

\* `return v` of the innermost activation: to its caller's ret, or to
\* `s = self.alphabeta(...)` of search() for the root activation.
Return(M, v) ==
  LET n == Len(M.stack)
  IN  IF n = 1
        THEN [M EXCEPT !.stack = <<>>, !.loc.s = v, !.pc = "asp"]
        ELSE [M EXCEPT !.stack = Append(SubSeq(M.stack, 1, n - 2),
                                        [(M.stack[n - 1]) EXCEPT !.ret = v])]

\* A call made by the innermost activation from the call site `site`.
Call(M, site, child) ==
  [M EXCEPT !.stack = Append(SubSeq(M.stack, 1, Len(M.stack) - 1),
                             [Top(M) EXCEPT !.pc = site]) \o <<child>>]

\* alphabeta, "Store in TT" and return best_score.
ABStore(M) ==
  LET f == Top(M)
      flag == IF f.best_score <= f.a0 THEN UPPER
              ELSE IF f.best_score >= f.beta THEN LOWER
              ELSE EXACT
      entry == TTEntry(f.key, f.depth, f.best_score, flag, f.best_move)
  IN  Return([M EXCEPT !.self.tt = DictSet(@, f.key, entry)], f.best_score)

\* alphabeta, the head of `for mv in ordered` up to the first search of mv.
ABNextMove(M) ==
  LET f == Top(M)
  IN  IF f.idx >= Len(f.ordered) THEN ABStore(M)
      ELSE
        LET move_index == f.idx + 1
            mv == f.ordered[move_index]
            quiet == is_quiet(mv)
            lmr == f.depth >= 3 /\ quiet /\ ~f.in_check /\ move_index > 4
            margin == IF f.depth = 1 THEN 150 ELSE 250
            futile == f.depth <= 2 /\ ~f.in_check /\ quiet /\ f.stand_pat + margin <= f.alpha
            reduce == lmr \/ futile
            r == IF reduce THEN 1 ELSE 0
            f1 == [f EXCEPT !.idx = move_index, !.reduce = reduce, !.r = r]
        IN  Call(SetObj(SetTop(M, f1), f, make_move(Obj(M, f), mv)),
                 IF move_index = 1 THEN "first" ELSE "zero",
                 IF move_index = 1
                   THEN Frame("ab", f.obj, f.depth - 1, -f.beta, -f.alpha, f.ply + 1)
                   ELSE Frame("ab", f.obj, f.depth - 1 - r, -f.alpha - 1, -f.alpha, f.ply + 1))

\* A faulty variant of ABUpdate that puts the cutoff move at the head of the
\* killer list without removing it further down.
ABUpdate_NoDedup(M, score) ==
  LET f == Top(M)
      mv == f.ordered[f.idx]
      better == score > f.best_score
      f1 == [f EXCEPT !.best_score = IF better THEN score ELSE @,
                      !.best_move = IF better THEN mv ELSE @]
  IN  IF score >= f.beta THEN
        LET km == DictGet(M.self.killers, f.ply, <<>>)
            key_tpl == MoveKey(mv)
            km1 == <<key_tpl>> \o km
            km2 == IF Len(km1) > 2 THEN SubSeq(km1, 1, 2) ELSE km1
            hk == <<mv.from_sq, mv.to_sq>>
            self1 == IF is_quiet(mv)
                       THEN [M.self EXCEPT
                              !.killers = DictSet(@, f.ply, km2),
                              !.history = DictSet(@, hk, DictGet(@, hk, 0) + f.depth * f.depth)]
                       ELSE M.self
        IN  ABStore([SetTop(M, f1) EXCEPT !.self = self1])
      ELSE
        ABNextMove(SetTop(M, [f1 EXCEPT !.alpha = IF score > f.alpha THEN score ELSE @]))

\* alphabeta, "Update Best Move & Alpha/Beta" with the score of the move.
ABUpdate(M, score) ==
  LET f == Top(M)
      mv == f.ordered[f.idx]
      better == score > f.best_score
      f1 == [f EXCEPT !.best_score = IF better THEN score ELSE @,
                      !.best_move = IF better THEN mv ELSE @]
  IN  IF score >= f.beta THEN
        LET km == DictGet(M.self.killers, f.ply, <<>>)
            key_tpl == MoveKey(mv)
            km1 == IF km = <<>> \/ km[1] # key_tpl
                     THEN <<key_tpl>> \o SelectSeq(km, LAMBDA k : k # key_tpl)
                     ELSE km
            km2 == IF Len(km1) > 2 THEN SubSeq(km1, 1, 2) ELSE km1
            hk == <<mv.from_sq, mv.to_sq>>
            self1 == IF is_quiet(mv)
                       THEN [M.self EXCEPT
                              !.killers = DictSet(@, f.ply, km2),
                              !.history = DictSet(@, hk, DictGet(@, hk, 0) + f.depth * f.depth)]
                       ELSE M.self
        IN  ABStore([SetTop(M, f1) EXCEPT !.self = self1])
      ELSE
        ABNextMove(SetTop(M, [f1 EXCEPT !.alpha = IF score > f.alpha THEN score ELSE @]))

\* alphabeta after the principal-variation search of mv: undo_move, then the
\* re-search of a reduced move that beat alpha.
ABAfterPVS(M, score) ==
  LET f == Top(M)
      mv == f.ordered[f.idx]
      Undone(M1) ==
        IF f.reduce /\ score > f.alpha
          THEN Call(SetObj(M1, f, make_move(Obj(M1, f), mv)), "reduced",
                    Frame("ab", f.obj, f.depth - 1, -f.beta, -f.alpha, f.ply + 1))
          ELSE ABUpdate(M1, score)
  IN  Undone(SetObj(M, f, undo_move(Obj(M, f))))

\* alphabeta, "Move Generation and Ordering" up to the loop.
ABMoves(M) ==
  LET f == Top(M)
      pos == Obj(M, f)
      Ordered(mo) ==
        ABNextMove(SetTop([M EXCEPT !.self.see_cache = mo.see_cache],
                          [f EXCEPT !.ordered = mo.ordered, !.stand_pat = evaluate(pos),
                                    !.a0 = f.alpha, !.idx = 0,
                                    !.best_score = -MATE_SCORE, !.best_move = NoMove]))
      Generated(legal) ==
        IF legal = <<>>
          THEN Return(M, IF f.in_check THEN -MATE_SCORE + f.ply ELSE 0)
          ELSE Ordered(move_order(M.self.killers, M.self.history, pos, legal,
                                  f.tt_move, f.ply))
  IN  Generated(generate_legal_moves(pos))

\* The clone alphabeta makes for the null move.
NullPos(pos) ==
  LET side == pos.side_to_move
      Hashed(np) == [np EXCEPT !.zobrist = Zobrist_compute(np)]
  IN  Hashed([clone(pos) EXCEPT
                !.ep_square = None,
                !.halfmove_clock = @ + 1,
                !.fullmove_number = IF side = BLACK THEN @ + 1 ELSE @,
                !.side_to_move = 1 - side])

\* alphabeta from its first statement; late is what the deadline poll reads
\* (time.monotonic() > self.deadline).
ABEnterStep(M, late) ==
  LET f == Top(M)
      pos == Obj(M, f)
      aborted == [M EXCEPT !.self.out_of_time = TRUE]
  IN  IF M.self.stop_requested THEN Return(aborted, f.alpha)
      ELSE IF M.self.deadline /\ M.self.nodes % NODE_BATCH = 0 /\ late
        THEN Return(aborted, f.alpha)
      ELSE
        LET M1 == [M EXCEPT !.self.nodes = @ + 1]
            key == pos.zobrist
            has == key \in DOMAIN M.self.tt
            tt == M.self.tt[key]
            usable == has /\ tt.depth >= f.depth
            alpha == IF usable /\ tt.flag = LOWER THEN MaxInt(f.alpha, tt.score) ELSE f.alpha
            beta == IF usable /\ tt.flag = UPPER THEN MinInt(f.beta, tt.score) ELSE f.beta
            R == IF f.depth >= 5 THEN 3 ELSE 2
            Probed(chk, f1) ==
              IF f.depth <= 0
                THEN SetTop(M1, [f1 EXCEPT !.fn = "qs"])
              ELSE IF f.depth >= 2 /\ ~chk /\ has_non_pawn_material(pos, pos.side_to_move)
                THEN Call([SetTop(M1, f1) EXCEPT !.null_pos = Append(@, NullPos(pos))],
                          "null",
                          Frame("ab", Len(M.null_pos) + 1, f.depth - R - 1,
                                -beta, -beta + 1, f.ply + 1))
              ELSE ABMoves(SetTop(M1, f1))
            Checked(chk) ==
              Probed(chk, [f EXCEPT !.alpha = alpha, !.beta = beta, !.key = key,
                                    !.tt_move = IF has THEN tt.best_move ELSE NoMove,
                                    !.in_check = chk])
        IN  IF usable /\ (tt.flag = EXACT \/ alpha >= beta) THEN Return(M1, tt.score)
            ELSE Checked(in_check(pos))

\* alphabeta after the null-move search: the clone is dropped.
ABAfterNullStep(M) ==
  LET f == Top(M)
      score == -f.ret
      Dropped(M1) == IF score >= f.beta THEN Return(M1, f.beta) ELSE ABMoves(M1)
  IN  Dropped([M EXCEPT !.null_pos = SubSeq(@, 1, Len(@) - 1)])

\* alphabeta after the first move's search, or after a full-window re-search.
ABAfterSearchStep(M) == ABAfterPVS(M, -Top(M).ret)

\* alphabeta after the re-search of a reduced move: undo_move, then the update.
ABAfterReducedStep(M) ==
  LET f == Top(M)
  IN  ABUpdate(SetObj(M, f, undo_move(Obj(M, f))), -f.ret)

\* alphabeta after the zero-window probe of a later move.
ABAfterZeroStep(M) ==
  LET f == Top(M)
      score == -f.ret
  IN  IF score > f.alpha
        THEN Call(M, "full",
                  Frame("ab", f.obj, f.depth - 1 - f.r, -f.beta, -f.alpha, f.ply + 1))
        ELSE ABAfterPVS(M, score)

\* qsearch, the head of `for mv in ordered_noisy_moves`: skip the captures
\* whose cached SEE score is negative, make the next move and recurse.
RECURSIVE QSNextMove(_)
QSNextMove(M) ==
  LET f == Top(M)
  IN  IF f.idx >= Len(f.ordered) THEN Return(M, f.alpha)
      ELSE
        LET mv == f.ordered[f.idx + 1]
            pos == Obj(M, f)
            Taken(M2) ==
              Call(SetObj(M2, f, make_move(pos, mv)), "qs_move",
                   Frame("qs", f.obj, 0, -f.beta, -f.alpha, f.ply + 1))
            Scored(sc) ==
              IF sc.score < 0
                THEN QSNextMove(SetTop([M EXCEPT !.self.see_cache = sc.see_cache],
                                       [f EXCEPT !.idx = f.idx + 1]))
                ELSE Taken(SetTop([M EXCEPT !.self.see_cache = sc.see_cache],
                                  [f EXCEPT !.idx = f.idx + 1]))
        IN  IF mv.promotion = None
              THEN Scored(get_see_score(M.self.see_cache, pos, mv))
              ELSE Taken(SetTop(M, [f EXCEPT !.idx = f.idx + 1]))

\* qsearch from its first statement; late is what the deadline poll reads.
QSEnterStep(M, late) ==
  LET f == Top(M)
      pos == Obj(M, f)
      nodes == M.self.nodes + 1
      M1 == [M EXCEPT !.self.nodes = nodes]
      Ordered(stand_pat, mo) ==
        QSNextMove(SetTop([M1 EXCEPT !.self.see_cache = mo.see_cache],
                          [f EXCEPT !.alpha = IF f.alpha < stand_pat THEN stand_pat ELSE @,
                                    !.stand_pat = stand_pat, !.ordered = mo.ordered,
                                    !.idx = 0]))
      Noisy(legal) ==
        SelectSeq(legal, LAMBDA mv :
          mv.capture_piece # None \/ mv.is_en_passant \/ mv.promotion # None)
      Evaluated(stand_pat) ==
        IF stand_pat >= f.beta THEN Return(M1, f.beta)
        ELSE Ordered(stand_pat,
                     move_order(M.self.killers, M.self.history, pos,
                                Noisy(generate_legal_moves(pos)), NoMove, 0))
  IN  IF M.self.stop_requested \/ (M.self.deadline /\ nodes % NODE_BATCH = 0 /\ late)
        THEN Return([M1 EXCEPT !.self.out_of_time = TRUE], f.alpha)
      ELSE Evaluated(evaluate(pos))

\* qsearch after the recursive call on a noisy move.
QSAfterStep(M) ==
  LET f == Top(M)
      score == -f.ret
      Undone(M1) ==
        IF score >= f.beta THEN Return(M1, f.beta)
        ELSE QSNextMove(SetTop(M1, [f EXCEPT !.alpha = IF score > f.alpha THEN score ELSE @]))
  IN  Undone(SetObj(M, f, undo_move(Obj(M, f))))

\* The first loop of get_pv: follow the best moves of the table from p, making
\* each one. Returns the line and the position object as the loop leaves it.
RECURSIVE PvWalk(_, _, _, _, _)
PvWalk(tt, p, pv, seen, max_len) ==
  IF Len(pv) >= max_len \/ p.zobrist \notin DOMAIN tt THEN [pv |-> pv, pos |-> p]
  ELSE
    LET mv == tt[p.zobrist].best_move
    IN  IF mv = NoMove \/ MoveKey(mv) \in seen THEN [pv |-> pv, pos |-> p]
        ELSE PvWalk(tt, make_move(p, mv), Append(pv, mv), seen \cup {MoveKey(mv)}, max_len)

\* undo_move n times.
RECURSIVE UndoTimes(_, _)
UndoTimes(p, n) == IF n = 0 THEN p ELSE UndoTimes(undo_move(p), n - 1)

\* A faulty variant of get_pv that undoes one move fewer than it made.
get_pv_UndoesOneLess(tt, p, max_len) ==
  LET Walked(w) == [pv |-> w.pv, pos |-> UndoTimes(w.pos, MaxInt(0, Len(w.pv) - 1))]
  IN  Walked(PvWalk(tt, p, <<>>, {}, max_len))

\* get_pv: the line, and the position object after the undos.
get_pv(tt, p, max_len) ==
  LET Walked(w) == [pv |-> w.pv, pos |-> UndoTimes(w.pos, Len(w.pv))]
  IN  Walked(PvWalk(tt, p, <<>>, {}, max_len))

\* search(), lines 337-344: the prologue. time_ms is whether a time limit was
\* given.
SearchStartStep(M, time_ms) ==
  [M EXCEPT !.self.nodes = 0, !.self.deadline = time_ms,
            !.self.stop_requested = FALSE, !.self.out_of_time = FALSE,
            !.loc = [best_move |-> NoMove, score |-> 0, prev_score |-> 0,
                     d |-> 0, a |-> 0, b |-> 0, delta |-> 0, s |-> 0],
            !.pc = "iter"]

\* search(), the head of `for d in range(1, depth + 1)` up to the call of
\* alphabeta at the root, or the return when the range is exhausted.
IterBeginStep(M, depth) ==
  LET d == M.loc.d + 1
      history == IF d % 2 = 0 /\ M.self.history # EmptyDict
                   THEN [k \in DOMAIN M.self.history |-> M.self.history[k] \div 2]
                   ELSE M.self.history
      a == IF d > 1 THEN M.loc.prev_score - 50 ELSE -MATE_SCORE
      b == IF d > 1 THEN M.loc.prev_score + 50 ELSE MATE_SCORE
  IN  IF d > depth THEN [M EXCEPT !.pc = "done"]
      ELSE [M EXCEPT !.self.history = history,
                     !.loc.d = d, !.loc.a = a, !.loc.b = b,
                     !.loc.delta = IF d > 1 THEN 50 ELSE @,
                     !.stack = <<Frame("ab", 0, d, a, b, 0)>>,
                     !.pc = "wait"]

\* A faulty variant of AspirationStep that widens the window by the same
\* delta every time.
AspirationStep_FixedDelta(M, info_cb) ==
  LET l == M.loc
      delta == l.delta
      a == MaxInt(-MATE_SCORE, l.a - delta)
      b == MinInt(MATE_SCORE, l.b + delta)
      Reported(M1) ==
        IF l.s <= l.a /\ l.a > -MATE_SCORE
          THEN [M1 EXCEPT !.loc.delta = delta, !.loc.a = a,
                          !.stack = <<Frame("ab", 0, l.d, a, l.b, 0)>>, !.pc = "wait"]
        ELSE IF l.s >= l.b /\ l.b < MATE_SCORE
          THEN [M1 EXCEPT !.loc.delta = delta, !.loc.b = b,
                          !.stack = <<Frame("ab", 0, l.d, l.a, b, 0)>>, !.pc = "wait"]
        ELSE [M1 EXCEPT !.pc = "iter_end"]
  IN  IF M.self.out_of_time \/ M.self.stop_requested THEN [M EXCEPT !.pc = "iter_end"]
      ELSE IF info_cb
        THEN Reported([M EXCEPT !.pos = get_pv(M.self.tt, M.pos, l.d).pos])
        ELSE Reported(M)

\* search(), the body of `while True` after alphabeta returned s: leave the
\* loop, or widen the window and search again.
AspirationStep(M, info_cb) ==
  LET l == M.loc
      delta == l.delta * 2
      a == MaxInt(-MATE_SCORE, l.a - delta)
      b == MinInt(MATE_SCORE, l.b + delta)
      Reported(M1) ==
        IF l.s <= l.a /\ l.a > -MATE_SCORE
          THEN [M1 EXCEPT !.loc.delta = delta, !.loc.a = a,
                          !.stack = <<Frame("ab", 0, l.d, a, l.b, 0)>>, !.pc = "wait"]
        ELSE IF l.s >= l.b /\ l.b < MATE_SCORE
          THEN [M1 EXCEPT !.loc.delta = delta, !.loc.b = b,
                          !.stack = <<Frame("ab", 0, l.d, l.a, b, 0)>>, !.pc = "wait"]
        ELSE [M1 EXCEPT !.pc = "iter_end"]
  IN  IF M.self.out_of_time \/ M.self.stop_requested THEN [M EXCEPT !.pc = "iter_end"]
      ELSE IF info_cb
        THEN Reported([M EXCEPT !.pos = get_pv(M.self.tt, M.pos, l.d).pos])
        ELSE Reported(M)

\* A faulty variant of IterationEndStep that records the iteration's result
\* before it looks at the abort flags.
IterationEndStep_RecordsFirst(M, info_cb, late) ==
  LET has == M.pos.zobrist \in DOMAIN M.self.tt
      tt_move == IF has THEN M.self.tt[M.pos.zobrist].best_move ELSE NoMove
      M1 == [M EXCEPT !.loc.score = M.loc.s, !.loc.prev_score = M.loc.s,
                      !.loc.best_move = IF tt_move # NoMove THEN tt_move ELSE @]
  IN  IF M.self.out_of_time \/ M.self.stop_requested THEN [M1 EXCEPT !.pc = "done"]
      ELSE [M1 EXCEPT !.pc = IF M.self.deadline /\ late THEN "done" ELSE "iter"]

\* search(), lines 396-413: after the aspiration loop. An aborted iteration
\* returns; a finished one records score and best_move and goes on unless the
\* deadline has passed.
IterationEndStep(M, info_cb, late) ==
  IF M.self.out_of_time \/ M.self.stop_requested THEN [M EXCEPT !.pc = "done"]
  ELSE
    LET has == M.pos.zobrist \in DOMAIN M.self.tt
        tt_move == IF has THEN M.self.tt[M.pos.zobrist].best_move ELSE NoMove
        Recorded(M1) ==
          [M1 EXCEPT !.loc.score = M.loc.s, !.loc.prev_score = M.loc.s,
                     !.loc.best_move = IF tt_move # NoMove THEN tt_move ELSE @,
                     !.pc = IF M.self.deadline /\ late THEN "done" ELSE "iter"]
    IN  IF info_cb
          THEN Recorded([M EXCEPT !.pos = get_pv(M.self.tt, M.pos, M.loc.d).pos])
          ELSE Recorded(M)

\* ------------------------------------------------------------------ inputs
\* The FEN strings handed to from_fen, as their whitespace-split fields.
FENS == <<
  \* 1: castling rights, rook moves and rook captures on the home squares
  \*    4k2r/7p/8/8/8/8/8/4K2R w Kk - 3 10
  << <<"4", "k", "2", "r", "/", "7", "p", "/", "8", "/", "8", "/", "8", "/", "8", "/", "8", "/", "4", "K", "2", "R">>,
     <<"w">>,
     <<"K", "k">>,
     <<"-">>,
     <<"3">>,
     <<"1", "0">> >>,
  \* 2: queen-side castling with an attacked transit square
  \*    r3k3/8/8/8/8/8/8/R3K3 b Qq - 0 1
  << <<"r", "3", "k", "3", "/", "8", "/", "8", "/", "8", "/", "8", "/", "8", "/", "8", "/", "R", "3", "K", "3">>,
     <<"b">>,
     <<"Q", "q">>,
     <<"-">>,
     <<"0">>,
     <<"1">> >>,
  \* 3: white double push answered by en passant
  \*    4k3/8/8/8/3p4/8/4P3/4K3 w - - 0 1
  << <<"4", "k", "3", "/", "8", "/", "8", "/", "8", "/", "3", "p", "4", "/", "8", "/", "4", "P", "3", "/", "4", "K", "3">>,
     <<"w">>,
     <<"-">>,
     <<"-">>,
     <<"0">>,
     <<"1">> >>,
  \* 4: black double push answered by en passant
  \*    4k3/3p4/8/4P3/8/8/8/4K3 b - - 5 7
  << <<"4", "k", "3", "/", "3", "p", "4", "/", "8", "/", "4", "P", "3", "/", "8", "/", "8", "/", "8", "/", "4", "K", "3">>,
     <<"b">>,
     <<"-">>,
     <<"-">>,
     <<"5">>,
     <<"7">> >>,
  \* 5: promotions, with and without capture, both sides
  \*    1n2k3/P7/8/8/8/8/7p/4K1N1 w - - 0 1
  << <<"1", "n", "2", "k", "3", "/", "P", "7", "/", "8", "/", "8", "/", "8", "/", "8", "/", "7", "p", "/", "4", "K", "1", "N", "1">>,
     <<"w">>,
     <<"-">>,
     <<"-">>,
     <<"0">>,
     <<"1">> >>,
  \* 6: a pinned bishop and a checking rook
  \*    4k3/4r3/8/8/8/8/4B3/4K3 w - - 0 1
  << <<"4", "k", "3", "/", "4", "r", "3", "/", "8", "/", "8", "/", "8", "/", "8", "/", "4", "B", "3", "/", "4", "K", "3">>,
     <<"w">>,
     <<"-">>,
     <<"-">>,
     <<"0">>,
     <<"1">> >>,
  \* 7: an ep square already set in the FEN
  \*    4k3/8/8/3pP3/8/8/8/4K3 w - d6 0 2
  << <<"4", "k", "3", "/", "8", "/", "8", "/", "3", "p", "P", "3", "/", "8", "/", "8", "/", "8", "/", "4", "K", "3">>,
     <<"w">>,
     <<"-">>,
     <<"d", "6">>,
     <<"0">>,
     <<"2">> >>,
  \* 8: castling right K with the white king on d1
  \*    4k3/8/8/8/8/8/8/3K3R w K - 0 1
  << <<"4", "k", "3", "/", "8", "/", "8", "/", "8", "/", "8", "/", "8", "/", "8", "/", "3", "K", "3", "R">>,
     <<"w">>,
     <<"K">>,
     <<"-">>,
     <<"0">>,
     <<"1">> >>,
  \* 9: ep square e3 with no pawn behind it
  \*    4k3/8/8/8/8/8/3P4/4K3 w - e3 0 1
  << <<"4", "k", "3", "/", "8", "/", "8", "/", "8", "/", "8", "/", "8", "/", "3", "P", "4", "/", "4", "K", "3">>,
     <<"w">>,
     <<"-">>,
     <<"e", "3">>,
     <<"0">>,
     <<"1">> >>,
  \* 10: black to move is stalemated
  \*    7k/5Q2/6K1/8/8/8/8/8 b - - 0 1
  << <<"7", "k", "/", "5", "Q", "2", "/", "6", "K", "1", "/", "8", "/", "8", "/", "8", "/", "8", "/", "8">>,
     <<"b">>,
     <<"-">>,
     <<"-">>,
     <<"0">>,
     <<"1">> >>,
  \* 11: a quiet pawn push that the reduced search scores above alpha
  \*    8/8/4P3/7k/8/8/3K4/8 w - - 0 1
  << <<"8", "/", "8", "/", "4", "P", "3", "/", "7", "k", "/", "8", "/", "8", "/", "3", "K", "4", "/", "8">>,
     <<"w">>,
     <<"-">>,
     <<"-">>,
     <<"0">>,
     <<"1">> >>,
  \* 12: g3-g4 leaves Black, who has a bishop, without a legal move
  \*    kb2R3/8/1K6/8/8/6P1/8/8 w - - 0 1
  << <<"k", "b", "2", "R", "3", "/", "8", "/", "1", "K", "6", "/", "8", "/", "8", "/", "6", "P", "1", "/", "8", "/", "8">>,
     <<"w">>,
     <<"-">>,
     <<"-">>,
     <<"0">>,
     <<"1">> >>,
  \* 13: Black is mated in two plies (Kb8, d8=Q#)
  \*    k7/3P4/1K6/8/8/8/8/8 b - - 0 1
  << <<"k", "7", "/", "3", "P", "4", "/", "1", "K", "6", "/", "8", "/", "8", "/", "8", "/", "8", "/", "8">>,
     <<"b">>,
     <<"-">>,
     <<"-">>,
     <<"0">>,
     <<"1">> >>,
  \* 14: White mates in one (d8=Q#)
  \*    1k6/3P4/1K6/8/8/8/8/8 w - - 1 2
  << <<"1", "k", "6", "/", "3", "P", "4", "/", "1", "K", "6", "/", "8", "/", "8", "/", "8", "/", "8", "/", "8">>,
     <<"w">>,
     <<"-">>,
     <<"-">>,
     <<"1">>,
     <<"2">> >>,
  \* 15: two queens a side, each able to take one of the other's
  \*    k3K3/8/Q1Q1b3/8/2qq4/8/8/8 b - - 0 1
  << <<"k", "3", "K", "3", "/", "8", "/", "Q", "1", "Q", "1", "b", "3", "/", "8", "/", "2", "q", "q", "4", "/", "8", "/", "8", "/", "8">>,
     <<"b">>,
     <<"-">>,
     <<"-">>,
     <<"0">>,
     <<"1">> >>
>>

\* The FENs search() is run on.
SearchFens == {3, 8, 10}

\* -------------------------------------------------------------------- state
VARIABLES
  fen,       \* the FEN given to from_fen: its index in FENS, or its fields
  pos,       \* the Position object (its undo stack is pos.move_stack)
  args,      \* the arguments of search(): depth, time_ms given, info_cb given
  self,      \* the Search object
  null_pos,  \* the clones alphabeta holds for its null moves, innermost last
  stack,     \* the alphabeta / qsearch activations, innermost last
  loc,       \* the locals of search()
  pc,        \* the worker: "idle", "start", "iter", "wait", "asp", "iter_end", "done"
  late,      \* what time.monotonic() > self.deadline last read
  shell,     \* the UCI loop: "ready", "joining" (in join() after request_stop), "joined"
  ret,       \* what the last call gave its caller (Unset after make_move)
  reqs       \* the /move requests of the HTTP API, in order of arrival

vars == <<fen, pos, args, self, null_pos, stack, loc, pc, late, shell, ret, reqs>>
search_vars == <<args, self, null_pos, stack, loc, pc, late, shell, reqs>>

Range(s) == { s[i] : i \in 1..Len(s) }


\* Search.__init__
NewSearch ==
  [tt |-> EmptyDict, nodes |-> 0, deadline |-> FALSE,
   killers |-> EmptyDict, history |-> EmptyDict,
   stop_requested |-> FALSE, out_of_time |-> FALSE, see_cache |-> EmptyDict]

NoLocals ==
  [best_move |-> NoMove, score |-> 0, prev_score |-> 0,
   d |-> 0, a |-> 0, b |-> 0, delta |-> 0, s |-> 0]

\* A position parsed from a FEN and a Search object, no search started.
Init ==
  /\ fen \in 1..Len(FENS)
  /\ pos = from_fen(FENS[fen])
  /\ args = [depth |-> 0, time_ms |-> FALSE, info_cb |-> FALSE]
  /\ self = NewSearch
  /\ null_pos = <<>>
  /\ stack = <<>>
  /\ loc = NoLocals
  /\ pc = "idle"
  /\ late = FALSE
  /\ shell = "ready"
  /\ ret = Unset
  /\ reqs = <<>>

\* pos.make_move(mv) for a move of generate_legal_moves(pos); it returns nothing.
MakeMove ==
  /\ pc = "idle"
  /\ Len(pos.move_stack) < MaxPly
  /\ \E mv \in Range(generate_legal_moves(pos)) : pos' = make_move(pos, mv)
  /\ ret' = Unset
  /\ UNCHANGED <<fen, search_vars>>

\* pos.undo_move(), with or without a move to undo.
UndoMove ==
  /\ pc = "idle"
  /\ LET Done(r) ==
           /\ pos' = r.pos
           /\ ret' = [call |-> "undo_move", raised |-> r.raised]
     IN  Done(undo_move_call(pos))
  /\ UNCHANGED <<fen, search_vars>>

\* c = pos.clone(); c.undo_move()
CloneUndo ==
  /\ pc = "idle"
  /\ LET Done(r) ==
           ret' = [call |-> "clone.undo_move", raised |-> r.raised, target |-> r.pos]
     IN  Done(undo_move_call(clone(pos)))
  /\ UNCHANGED <<fen, pos, search_vars>>

Next == MakeMove \/ UndoMove \/ CloneUndo

Spec == Init /\ [][Next]_vars

\* ------------------------------------------------------------------- perft
\* The test positions (whitespace-split FEN fields) with the published
\* numbers of leaf positions at depth 1, 2, ...
PERFT == <<
  \* 1: the start position
  \*    rnbqkbnr/pppppppp/8/8/8/8/PPPPPPPP/RNBQKBNR w KQkq - 0 1
  [fen |-> << <<"r", "n", "b", "q", "k", "b", "n", "r", "/", "p", "p", "p", "p", "p", "p", "p", "p", "/", "8", "/", "8", "/", "8", "/", "8", "/", "P", "P", "P", "P", "P", "P", "P", "P", "/", "R", "N", "B", "Q", "K", "B", "N", "R">>,
           <<"w">>,
           <<"K", "Q", "k", "q">>,
           <<"-">>,
           <<"0">>,
           <<"1">> >>,
   published |-> <<20, 400, 8902>>],
  \* 2: Kiwipete
  \*    r3k2r/p1ppqpb1/bn2pnp1/3PN3/1p2P3/2N2Q1p/PPPBBPPP/R3K2R w KQkq - 0 1
  [fen |-> << <<"r", "3", "k", "2", "r", "/", "p", "1", "p", "p", "q", "p", "b", "1", "/", "b", "n", "2", "p", "n", "p", "1", "/", "3", "P", "N", "3", "/", "1", "p", "2", "P", "3", "/", "2", "N", "2", "Q", "1", "p", "/", "P", "P", "P", "B", "B", "P", "P", "P", "/", "R", "3", "K", "2", "R">>,
           <<"w">>,
           <<"K", "Q", "k", "q">>,
           <<"-">>,
           <<"0">>,
           <<"1">> >>,
   published |-> <<48, 2039>>],
  \* 3: Position 3, four fields
  \*    8/2p5/3p4/KP5r/1R3p1k/8/4P1P1/8 w - -
  [fen |-> << <<"8", "/", "2", "p", "5", "/", "3", "p", "4", "/", "K", "P", "5", "r", "/", "1", "R", "3", "p", "1", "k", "/", "8", "/", "4", "P", "1", "P", "1", "/", "8">>,
           <<"w">>,
           <<"-">>,
           <<"-">> >>,
   published |-> <<14, 191>>],
  \* 4: Position 3, six fields
  \*    8/2p5/3p4/KP5r/1R3p1k/8/4P1P1/8 w - - 0 1
  [fen |-> << <<"8", "/", "2", "p", "5", "/", "3", "p", "4", "/", "K", "P", "5", "r", "/", "1", "R", "3", "p", "1", "k", "/", "8", "/", "4", "P", "1", "P", "1", "/", "8">>,
           <<"w">>,
           <<"-">>,
           <<"-">>,
           <<"0">>,
           <<"1">> >>,
   published |-> <<14, 191>>]
>>

\* The number of leaf positions reached from p by expanding
\* generate_legal_moves with make_move to depth d.
RECURSIVE perft(_, _)
perft(p, d) ==
  IF d = 0 THEN 1
  ELSE LET Leaves(moves) ==
             SumSeq([i \in 1..Len(moves) |-> perft(make_move(p, moves[i]), d - 1)])
       IN  Leaves(generate_legal_moves(p))

InitPerft ==
  /\ fen \in 1..Len(PERFT)
  /\ pos = Unset
  /\ args = [depth |-> 0, time_ms |-> FALSE, info_cb |-> FALSE]
  /\ self = NewSearch
  /\ null_pos = <<>>
  /\ stack = <<>>
  /\ loc = NoLocals
  /\ pc = "idle"
  /\ late = FALSE
  /\ shell = "ready"
  /\ ret = Unset
  /\ reqs = <<>>

\* pos = Position.from_fen(...) of the test position, or the error it raises.
PerftParse ==
  /\ pos = Unset
  /\ pos' = from_fen(PERFT[fen].fen)
  /\ UNCHANGED <<fen, ret, search_vars>>

\* One ply down, short of the deepest published depth.
PerftDescend ==
  /\ pos # Unset
  /\ ~IsError(pos)
  /\ Len(pos.move_stack) + 1 < Len(PERFT[fen].published)
  /\ \E mv \in Range(generate_legal_moves(pos)) : pos' = make_move(pos, mv)
  /\ ret' = Unset
  /\ UNCHANGED <<fen, search_vars>>

\* The leaves below pos are counted to a depth the published table reaches.
Perft ==
  /\ pos # Unset
  /\ ~IsError(pos)
  /\ \E d \in 1..(Len(PERFT[fen].published) - Len(pos.move_stack)) :
       ret' = [call |-> "perft", depth |-> d, count |-> perft(pos, d)]
  /\ UNCHANGED <<fen, pos, search_vars>>

NextPerft == PerftParse \/ PerftDescend \/ Perft

SpecPerft == InitPerft /\ [][NextPerft]_vars

\* ------------------------------------------------------------ the HTTP API
\* How many /move requests arrive.
MaxRequests == 2

\* The bodies of the POST /move requests: a FEN (its fields), depth, method.
ApiBodies ==
  [fen : {FENS[3], FENS[10], SubSeq(FENS[3], 1, 5)},
   depth : {0, 2},
   method : {"best", "random"}]

\* The module is imported: `searcher = Search()`, no request yet.
InitApi ==
  /\ fen = 0
  /\ pos = Unset
  /\ args = [depth |-> 0, time_ms |-> FALSE, info_cb |-> FALSE]
  /\ self = NewSearch
  /\ null_pos = <<>>
  /\ stack = <<>>
  /\ loc = NoLocals
  /\ pc = "idle"
  /\ late = FALSE
  /\ shell = "ready"
  /\ ret = Unset
  /\ reqs = <<>>

\* A request arrives; get_move is a plain `def`, so the server runs it on a
\* thread of its own.
ApiAccept ==
  /\ Len(reqs) < MaxRequests
  /\ \E body \in ApiBodies :
       reqs' = Append(reqs, [body |-> body, at |-> "accepted", pos |-> Unset,
                             depth |-> 0, response |-> Unset])
  /\ UNCHANGED <<fen, pos, ret, args, self, null_pos, stack, loc, pc, late, shell>>

\* get_move up to the call of searcher.search: only the thread's own data.
ApiHandle(r) ==
  /\ reqs[r].at = "accepted"
  /\ LET body == reqs[r].body
         Reply(resp) == reqs' = [reqs EXCEPT ![r].at = "responded", ![r].response = resp]
         Parsed(p) ==
           IF IsError(p)
             THEN Reply([status |-> "error", reason |-> "Invalid FEN"])
           ELSE IF generate_legal_moves(p) = <<>>
             THEN Reply([status |-> "game_over", reason |-> "No legal moves"])
           ELSE IF body.method = "random"
             THEN \E move \in Range(generate_legal_moves(p)) :
                    Reply([status |-> "ok", method |-> "random", move |-> move,
                           fen_after |-> to_fen(make_move(p, move))])
           ELSE reqs' = [reqs EXCEPT ![r].at = "call_search", ![r].pos = p,
                                     ![r].depth = MaxInt(1, IF body.depth = 0 THEN 3 ELSE body.depth)]
     IN  Parsed(from_fen(body.fen))
  /\ UNCHANGED <<fen, pos, ret, args, self, null_pos, stack, loc, pc, late, shell>>

\* The thread enters searcher.search(pos, depth): the head of search() resets
\* the counters and flags of the one shared Search object. Nothing in
\* get_move or in search() waits for a call already under way.
ApiSearchEnter(r) ==
  /\ reqs[r].at = "call_search"
  /\ reqs' = [reqs EXCEPT ![r].at = "in_search"]
  /\ self' = [self EXCEPT !.nodes = 0, !.deadline = FALSE,
                          !.stop_requested = FALSE, !.out_of_time = FALSE]
  /\ UNCHANGED <<fen, pos, ret, args, null_pos, stack, loc, pc, late, shell>>

\* search() returns (or raises) and get_move answers. What the call found,
\* and the node count it leaves (here: some count up to NODE_BATCH), is the
\* search machine's business; here any legal move or none may come back.
ApiSearchReturn(r) ==
  /\ reqs[r].at = "in_search"
  /\ \E n \in {1, NODE_BATCH} : self' = [self EXCEPT !.nodes = n]
  /\ \/ \E why \in {"Search failed", "No move found"} :
          reqs' = [reqs EXCEPT ![r].at = "responded",
                               ![r].response = [status |-> "error", reason |-> why]]
     \/ \E best_move \in Range(generate_legal_moves(reqs[r].pos)) :
          reqs' = [reqs EXCEPT ![r].at = "responded",
                               ![r].response =
                                 [status |-> "ok", method |-> "best", move |-> best_move,
                                  fen_after |-> to_fen(make_move(reqs[r].pos, best_move)),
                                  depth |-> reqs[r].depth]]
  /\ UNCHANGED <<fen, pos, ret, args, null_pos, stack, loc, pc, late, shell>>

NextApi ==
  \/ ApiAccept
  \/ \E r \in 1..Len(reqs) : ApiHandle(r)
  \/ \E r \in 1..Len(reqs) : ApiSearchEnter(r)
  \/ \E r \in 1..Len(reqs) : ApiSearchReturn(r)

SpecApi == InitApi /\ [][NextApi]_vars

\* ----------------------------------------------------------- see() alone
\* The positions see() is tried on, as whitespace-split FEN fields.
SEE_FENS == <<
  \* 1: a rook takes a pawn that a bishop defends
  \*    6k1/1b6/8/3p4/8/8/8/3RK3 w - - 0 1
  << <<"6", "k", "1", "/", "1", "b", "6", "/", "8", "/", "3", "p", "4", "/", "8", "/", "8", "/", "8", "/", "3", "R", "K", "3">>,
     <<"w">>,
     <<"-">>,
     <<"-">>,
     <<"0">>,
     <<"1">> >>,
  \* 2: a queen takes a queen that a rook defends
  \*    3r2k1/8/8/3q4/8/8/8/3QK3 w - - 0 1
  << <<"3", "r", "2", "k", "1", "/", "8", "/", "8", "/", "3", "q", "4", "/", "8", "/", "8", "/", "8", "/", "3", "Q", "K", "3">>,
     <<"w">>,
     <<"-">>,
     <<"-">>,
     <<"0">>,
     <<"1">> >>,
  \* 3: doubled rooks against a pawn that a rook defends
  \*    3r2k1/8/8/3p4/8/8/3R4/3RK3 w - - 0 1
  << <<"3", "r", "2", "k", "1", "/", "8", "/", "8", "/", "3", "p", "4", "/", "8", "/", "8", "/", "3", "R", "4", "/", "3", "R", "K", "3">>,
     <<"w">>,
     <<"-">>,
     <<"-">>,
     <<"0">>,
     <<"1">> >>,
  \* 4: an en passant capture with a rook behind the captured pawn
  \*    5nk1/8/8/3Pp3/8/8/8/4R1K1 w - e6 0 1
  << <<"5", "n", "k", "1", "/", "8", "/", "8", "/", "3", "P", "p", "3", "/", "8", "/", "8", "/", "8", "/", "4", "R", "1", "K", "1">>,
     <<"w">>,
     <<"-">>,
     <<"e", "6">>,
     <<"0">>,
     <<"1">> >>
>>

InitSee ==
  /\ fen \in 1..Len(SEE_FENS)
  /\ pos = from_fen(SEE_FENS[fen])
  /\ args = [depth |-> 0, time_ms |-> FALSE, info_cb |-> FALSE]
  /\ self = NewSearch
  /\ null_pos = <<>>
  /\ stack = <<>>
  /\ loc = NoLocals
  /\ pc = "idle"
  /\ late = FALSE
  /\ shell = "ready"
  /\ ret = Unset
  /\ reqs = <<>>

\* see(pos, mv) for a capture among generate_legal_moves(pos).
See ==
  /\ pc = "idle"
  /\ \E mv \in Range(generate_legal_moves(pos)) :
       /\ mv.capture_piece # None \/ mv.is_en_passant
       /\ ret' = [call |-> "see", mv |-> mv, value |-> see(pos, mv)]
  /\ UNCHANGED <<fen, pos, search_vars>>

NextSee == MakeMove \/ See

SpecSee == InitSee /\ [][NextSee]_vars

\* ------------------------------------------------------- evaluation terms
\* _mobility_score(pos) on the positions of a game.
Mobility ==
  /\ pc = "idle"
  /\ ret' = [call |-> "_mobility_score", value |-> mobility_score(pos)]
  /\ UNCHANGED <<fen, pos, search_vars>>

NextEval == MakeMove \/ Mobility

SpecEval == Init /\ [][NextEval]_vars

\* ------------------------------------------------------ copy-make and make
\* new = apply_move_clone(pos, mv) for a pseudo-legal move of pos, beside
\* what pos.make_move(mv) makes of the same position. The clone has its own
\* bitboards list and undo stack, so pos is not written to.
ApplyMoveClone ==
  /\ pc = "idle"
  /\ \E mv \in Range(generate_pseudo_legal_moves(pos)) :
       ret' = [call |-> "apply_move_clone", move |-> mv,
               value |-> apply_move_clone(pos, mv), made |-> make_move(pos, mv)]
  /\ UNCHANGED <<fen, pos, search_vars>>

NextCopyMake == MakeMove \/ ApplyMoveClone

SpecCopyMake == Init /\ [][NextCopyMake]_vars

\* ------------------------------------------------------------- UCI move text
\* move_to_uci: file letter and rank digit of both squares, then the letter
\* of the promotion piece.
move_to_uci(m) ==
  LET s == <<LowerChars[(m.from_sq % 8) + 1]>> \o str((m.from_sq \div 8) + 1)
             \o <<LowerChars[(m.to_sq % 8) + 1]>> \o str((m.to_sq \div 8) + 1)
      promo == IF m.promotion % 6 = 4 THEN "q"
               ELSE IF m.promotion % 6 = 3 THEN "r"
               ELSE IF m.promotion % 6 = 2 THEN "b"
               ELSE "n"
  IN  IF m.promotion # None THEN s \o <<promo>> ELSE s

\* {'q': 4, 'r': 3, 'b': 2, 'n': 1}.get(ch)
PromoOfChar(ch) ==
  IF ch = "q" THEN 4 ELSE IF ch = "r" THEN 3 ELSE IF ch = "b" THEN 2
  ELSE IF ch = "n" THEN 1 ELSE None

\* find_legal_move: the first legal move with the squares, and the promotion
\* piece if there is one, that the text names; None without one.
find_legal_move(p, uci) ==
  LET from_sq == (Ord(uci[1]) - Ord("a")) + (DigitVal(uci[2]) - 1) * 8
      to_sq == (Ord(uci[3]) - Ord("a")) + (DigitVal(uci[4]) - 1) * 8
      promo == IF Len(uci) = 5 THEN PromoOfChar(uci[5]) ELSE None
      First(found) == IF found = <<>> THEN NoMove ELSE Head(found)
  IN  First(SelectSeq(generate_legal_moves(p), LAMBDA m :
        /\ m.from_sq = from_sq
        /\ m.to_sq = to_sq
        /\ (promo = None \/ m.promotion = promo)))

\* find_legal_move(pos, move_to_uci(m)) for a legal move m of pos.
FindLegalMove ==
  /\ pc = "idle"
  /\ \E m \in Range(generate_legal_moves(pos)) :
       ret' = [call |-> "find_legal_move", move |-> m,
               value |-> find_legal_move(pos, move_to_uci(m))]
  /\ UNCHANGED <<fen, pos, search_vars>>

NextUci == MakeMove \/ FindLegalMove

SpecUci == Init /\ [][NextUci]_vars

\* ------------------------------------------------- from_fen and to_fen alone
\* str.split() of the strings given to from_fen: every combination of field
\* alternatives (well-formed ones, ones the grammar admits in more than one
\* spelling, malformed ones), and the FENS with fields cut off or one field
\* too many.
FenInputs ==
  LET
  FenPlacements ==
    { \* 4k3/8/8/8/8/8/8/4K3
      <<"4", "k", "3", "/", "8", "/", "8", "/", "8", "/", "8", "/", "8", "/", "8", "/", "4", "K", "3">>,
      \* r3k2r/8/8/8/8/8/PPPPPPPP/R3K2R
      <<"r", "3", "k", "2", "r", "/", "8", "/", "8", "/", "8", "/", "8", "/", "8", "/",
        "P", "P", "P", "P", "P", "P", "P", "P", "/", "R", "3", "K", "2", "R">>,
      \* 4k3/8/8/8/8/8/8/4X3: X is no piece letter
      <<"4", "k", "3", "/", "8", "/", "8", "/", "8", "/", "8", "/", "8", "/", "8", "/", "4", "X", "3">>,
      \* 4k3/8/8/8/8/8/-/4K3: an empty rank filled with '-' in place of a digit
      <<"4", "k", "3", "/", "8", "/", "8", "/", "8", "/", "8", "/", "8", "/", "-", "/", "4", "K", "3">> }
  FenSides == { <<"w">>, <<"b">> }
  FenCastlings == { <<"-">>, <<"K", "Q", "k", "q">>, <<"K", "q">>, <<"k", "K">> }
  \* (h0 is left out: its square index is -1, which is how None is written here.)
  FenEps ==
    { <<"-">>, <<"e", "3">>, <<"d", "6">>, <<"h", "8">>,
      <<"i", "3">>, <<"e", "0">>, <<"e", "9">>, <<"E", "3">>, <<"e", "3", "x">>,
      <<"e">>, <<"-", "-">>, <<"3", "e">> }
  FenHalfmoves == { <<"0">>, <<"1", "2">>, <<"0", "5">>, <<"+", "1">>, <<"x">>, <<"1", ".", "5">> }
  FenFullmoves == { <<"1">>, <<"4", "0">>, <<"o", "n", "e">> }

  IN
    { <<pl, stm, ca, ep, hm, fm>> :
        pl \in FenPlacements, stm \in FenSides, ca \in FenCastlings,
        ep \in FenEps, hm \in FenHalfmoves, fm \in FenFullmoves }
    \cup { SubSeq(FENS[i], 1, n) : i \in 1..Len(FENS), n \in 0..6 }
    \cup { FENS[i] \o << <<"1">> >> : i \in 1..Len(FENS) }

InitFen ==
  /\ fen \in FenInputs
  /\ pos = Unset
  /\ args = [depth |-> 0, time_ms |-> FALSE, info_cb |-> FALSE]
  /\ self = NewSearch
  /\ null_pos = <<>>
  /\ stack = <<>>
  /\ loc = NoLocals
  /\ pc = "idle"
  /\ late = FALSE
  /\ shell = "ready"
  /\ ret = Unset
  /\ reqs = <<>>

\* pos = Position.from_fen(fen), or the error it raises.
FromFen ==
  /\ pos = Unset
  /\ pos' = from_fen(fen)
  /\ UNCHANGED <<fen, ret, search_vars>>

\* pos.to_fen()
ToFen ==
  /\ pos # Unset
  /\ ~IsError(pos)
  /\ ret = Unset
  /\ ret' = to_fen(pos)
  /\ UNCHANGED <<fen, pos, search_vars>>

NextFen == FromFen \/ ToFen

SpecFen == InitFen /\ [][NextFen]_vars

\* ----------------------------------------------------- the search at work
\* The worker thread has been started on search(pos, depth, time_ms, info_cb)
\* and has not run its first statement; the shell reads its next command.
InitSearch ==
  /\ fen \in SearchFens
  /\ pos = from_fen(FENS[fen])
  /\ args \in [depth : 1..MaxDepth, time_ms : BOOLEAN, info_cb : BOOLEAN]
  /\ self = NewSearch
  /\ null_pos = <<>>
  /\ stack = <<>>
  /\ loc = NoLocals
  /\ pc = "start"
  /\ late = FALSE
  /\ shell = "ready"
  /\ ret = Unset
  /\ reqs = <<>>

Bundle ==
  [pos |-> pos, null_pos |-> null_pos, self |-> self, stack |-> stack,
   loc |-> loc, pc |-> pc]

Becomes(M) ==
  /\ pos' = M.pos
  /\ null_pos' = M.null_pos
  /\ self' = M.self
  /\ stack' = M.stack
  /\ loc' = M.loc
  /\ pc' = M.pc

\* What a read of time.monotonic() > self.deadline may give: the clock only
\* moves forward. poll is whether the step reads the clock at all.
ClockReads(poll) == IF poll /\ ~late THEN BOOLEAN ELSE {late}

AtSite(fn, site) ==
  /\ pc = "wait"
  /\ stack # <<>>
  /\ stack[Len(stack)].fn = fn
  /\ stack[Len(stack)].pc = site

SearchStart ==
  /\ pc = "start"
  /\ Becomes(SearchStartStep(Bundle, args.time_ms))
  /\ UNCHANGED <<fen, ret, reqs, args, late, shell>>

IterBegin ==
  /\ pc = "iter"
  /\ Becomes(IterBeginStep(Bundle, args.depth))
  /\ UNCHANGED <<fen, ret, reqs, args, late, shell>>

ABEnter ==
  /\ AtSite("ab", "enter")
  /\ \E l \in ClockReads(/\ ~self.stop_requested
                         /\ self.deadline
                         /\ self.nodes % NODE_BATCH = 0) :
       /\ late' = l
       /\ Becomes(ABEnterStep(Bundle, l))
  /\ UNCHANGED <<fen, ret, reqs, args, shell>>

ABAfterNull ==
  /\ AtSite("ab", "null")
  /\ Becomes(ABAfterNullStep(Bundle))
  /\ UNCHANGED <<fen, ret, reqs, args, late, shell>>

ABAfterFirst ==
  /\ AtSite("ab", "first")
  /\ Becomes(ABAfterSearchStep(Bundle))
  /\ UNCHANGED <<fen, ret, reqs, args, late, shell>>

ABAfterZero ==
  /\ AtSite("ab", "zero")
  /\ Becomes(ABAfterZeroStep(Bundle))
  /\ UNCHANGED <<fen, ret, reqs, args, late, shell>>

ABAfterFull ==
  /\ AtSite("ab", "full")
  /\ Becomes(ABAfterSearchStep(Bundle))
  /\ UNCHANGED <<fen, ret, reqs, args, late, shell>>

ABAfterReduced ==
  /\ AtSite("ab", "reduced")
  /\ Becomes(ABAfterReducedStep(Bundle))
  /\ UNCHANGED <<fen, ret, reqs, args, late, shell>>

QSEnter ==
  /\ AtSite("qs", "enter")
  /\ \E l \in ClockReads(/\ ~self.stop_requested
                         /\ self.deadline
                         /\ (self.nodes + 1) % NODE_BATCH = 0) :
       /\ late' = l
       /\ Becomes(QSEnterStep(Bundle, l))
  /\ UNCHANGED <<fen, ret, reqs, args, shell>>

QSAfter ==
  /\ AtSite("qs", "qs_move")
  /\ Becomes(QSAfterStep(Bundle))
  /\ UNCHANGED <<fen, ret, reqs, args, late, shell>>

Aspiration ==
  /\ pc = "asp"
  /\ Becomes(AspirationStep(Bundle, args.info_cb))
  /\ UNCHANGED <<fen, ret, reqs, args, late, shell>>

IterationEnd ==
  /\ pc = "iter_end"
  /\ \E l \in ClockReads(/\ ~self.out_of_time
                         /\ ~self.stop_requested
                         /\ self.deadline) :
       /\ late' = l
       /\ Becomes(IterationEndStep(Bundle, args.info_cb, l))
  /\ UNCHANGED <<fen, ret, reqs, args, shell>>

\* The shell's `stop`: request_stop() while the worker is alive, then join().
RequestStop ==
  /\ shell = "ready"
  /\ pc \notin {"idle", "done"}
  /\ self' = [self EXCEPT !.stop_requested = TRUE]
  /\ shell' = "joining"
  /\ UNCHANGED <<fen, ret, reqs, pos, args, null_pos, stack, loc, pc, late>>

\* join() returns once the worker has returned from search().
Join ==
  /\ shell = "joining"
  /\ pc = "done"
  /\ shell' = "joined"
  /\ UNCHANGED <<fen, ret, reqs, pos, args, self, null_pos, stack, loc, pc, late>>

NextSearch ==
  \/ SearchStart
  \/ IterBegin
  \/ ABEnter
  \/ ABAfterNull
  \/ ABAfterFirst
  \/ ABAfterZero
  \/ ABAfterFull
  \/ ABAfterReduced
  \/ QSEnter
  \/ QSAfter
  \/ Aspiration
  \/ IterationEnd
  \/ RequestStop
  \/ Join

SpecSearch == InitSearch /\ [][NextSearch]_vars

\* ------------------------------------------- search where move classes meet
\* search() on positions whose nodes hold captures and promotions next to
\* quiet moves that earlier nodes of the same ply stored as killers, and
\* where a reduced quiet move is searched again at full depth.
OrderFens == {1, 5, 11}

InitOrder ==
  /\ fen \in OrderFens
  /\ pos = from_fen(FENS[fen])
  /\ args \in [depth : 1..MaxDepth, time_ms : BOOLEAN, info_cb : BOOLEAN]
  /\ self = NewSearch
  /\ null_pos = <<>>
  /\ stack = <<>>
  /\ loc = NoLocals
  /\ pc = "start"
  /\ late = FALSE
  /\ shell = "ready"
  /\ ret = Unset
  /\ reqs = <<>>

SpecOrder == InitOrder /\ [][NextSearch]_vars

\* --------------------------------------------- search with terminal nodes
\* search() on positions whose trees hold nodes without legal moves: a
\* stalemated king alone, a stalemated side that still has a piece, and
\* mates one and two plies below the root.
NodeFens == {10, 12, 13, 14}

InitNode ==
  /\ fen \in NodeFens
  /\ pos = from_fen(FENS[fen])
  /\ args \in [depth : 1..MaxDepth, time_ms : BOOLEAN, info_cb : BOOLEAN]
  /\ self = NewSearch
  /\ null_pos = <<>>
  /\ stack = <<>>
  /\ loc = NoLocals
  /\ pc = "start"
  /\ late = FALSE
  /\ shell = "ready"
  /\ ret = Unset
  /\ reqs = <<>>

SpecNode == InitNode /\ [][NextSearch]_vars

\* The steps of the thread that runs search(): once started it keeps running.
Worker ==
  \/ SearchStart
  \/ IterBegin
  \/ ABEnter
  \/ ABAfterNull
  \/ ABAfterFirst
  \/ ABAfterZero
  \/ ABAfterFull
  \/ ABAfterReduced
  \/ QSEnter
  \/ QSAfter
  \/ Aspiration
  \/ IterationEnd

\* Weak fairness of the worker. It can take a step exactly while search()
\* has not returned, so the condition reads: search() returns, or the worker
\* keeps taking steps.
WorkerFairness == []<>(pc = "done") \/ []<><<Worker>>_vars

SpecNodeFair == InitNode /\ [][NextSearch]_vars /\ WorkerFairness

\* ------------------------------------------------- get_pv after a search
\* The longest line asked of get_pv.
MaxPvLen == 4

\* get_pv(pos, max_len) on the tables search() has left, whether it ran to
\* its depth or was stopped or timed out.
GetPv ==
  /\ pc = "done"
  /\ ret = Unset
  /\ \E max_len \in 0..MaxPvLen :
       LET Got(r) ==
             /\ pos' = r.pos
             /\ ret' = [call |-> "get_pv", max_len |-> max_len, pv |-> r.pv, before |-> pos]
       IN  Got(get_pv(self.tt, pos, max_len))
  /\ UNCHANGED <<fen, search_vars>>

NextPv == NextSearch \/ GetPv

SpecPv == InitNode /\ [][NextPv]_vars

\* ------------------------------------- quiescence over several captures
\* search() on a position whose capture sequences leave the same capture
\* open to a side two plies later.
QuiesceFens == {15}

InitQuiesce ==
  /\ fen \in QuiesceFens
  /\ pos = from_fen(FENS[fen])
  /\ args \in [depth : 1..MaxDepth, time_ms : BOOLEAN, info_cb : BOOLEAN]
  /\ self = NewSearch
  /\ null_pos = <<>>
  /\ stack = <<>>
  /\ loc = NoLocals
  /\ pc = "start"
  /\ late = FALSE
  /\ shell = "ready"
  /\ ret = Unset
  /\ reqs = <<>>

SpecQuiesce == InitQuiesce /\ [][NextSearch]_vars

\* ------------------------------------------------------ the same search twice
\* search(P, d) with no time limit, nobody to ask for a stop.
InitTwice == (InitSearch \/ InitOrder) /\ ~args.time_ms

SearchAgain_KeepsTables ==
  /\ pc = "done"
  /\ ret = Unset
  /\ ret' = [call |-> "search", best_move |-> loc.best_move, score |-> loc.score,
             nodes |-> self.nodes]
  /\ pos' = from_fen(FENS[fen])
  /\ null_pos' = <<>>
  /\ stack' = <<>>
  /\ loc' = NoLocals
  /\ pc' = "start"
  /\ UNCHANGED <<fen, reqs, args, self, late, shell>>

\* search() has returned (best_move, score, self.nodes); the caller keeps the
\* triple and starts search(P, d) again on a new Search() and on P parsed anew.
SearchAgain ==
  /\ pc = "done"
  /\ ret = Unset
  /\ ret' = [call |-> "search", best_move |-> loc.best_move, score |-> loc.score,
             nodes |-> self.nodes]
  /\ pos' = from_fen(FENS[fen])
  /\ self' = NewSearch
  /\ null_pos' = <<>>
  /\ stack' = <<>>
  /\ loc' = NoLocals
  /\ pc' = "start"
  /\ UNCHANGED <<fen, reqs, args, late, shell>>

NextTwice ==
  \/ SearchStart
  \/ IterBegin
  \/ ABEnter
  \/ ABAfterNull
  \/ ABAfterFirst
  \/ ABAfterZero
  \/ ABAfterFull
  \/ ABAfterReduced
  \/ QSEnter
  \/ QSAfter
  \/ Aspiration
  \/ IterationEnd
  \/ SearchAgain

SpecTwice == InitTwice /\ [][NextTwice]_vars

\* ------------------------------------------------- properties of Position
\* The position the run was parsed from.
Root == from_fen(FENS[fen])

LastMove == pos.move_stack[Len(pos.move_stack)].move

\* A legal chess position in the sense of the rules of chess, as far as the
\* FEN fields go: one king a side, no pawn on a back rank, the side that has
\* just moved is not in check, every castling right has its king and rook at
\* home, and an ep square lies behind a pawn that has just made a double push.
LegalPosition(p) ==
  LET bb == p.bitboards
      occ == p.all_occupancy
      cr == p.castling_rights
      ep == p.ep_square
  IN  /\ Cardinality(bb[5]) = 1 /\ Cardinality(bb[11]) = 1
      /\ \A sq \in bb[0] \cup bb[6] : Rank(sq) \in 1..6
      /\ IF p.side_to_move = WHITE
           THEN \A k \in bb[11] : ~is_square_attacked_by(WHITE, k, p)
           ELSE \A k \in bb[5] : ~is_square_attacked_by(BLACK, k, p)
      /\ HasBit(cr, CR_WK) => 4 \in bb[5] /\ 7 \in bb[3]
      /\ HasBit(cr, CR_WQ) => 4 \in bb[5] /\ 0 \in bb[3]
      /\ HasBit(cr, CR_BK) => 60 \in bb[11] /\ 63 \in bb[9]
      /\ HasBit(cr, CR_BQ) => 60 \in bb[11] /\ 56 \in bb[9]
      /\ ep # None =>
           IF p.side_to_move = WHITE
             THEN Rank(ep) = 5 /\ (ep - 8) \in bb[6] /\ ep \notin occ /\ (ep + 8) \notin occ
             ELSE Rank(ep) = 2 /\ (ep + 8) \in bb[0] /\ ep \notin occ /\ (ep - 8) \notin occ

\* C1: in every position reached from a FEN-parsed position, make_move of any
\* pseudo-legal move followed by undo_move gives back the position exactly:
\* the twelve masks, the occupancies, side, rights, ep square, both clocks,
\* the Zobrist hash, mg, eg, phase and the undo stack.
C1_MakeUndoRestores ==
  LET pl == generate_pseudo_legal_moves(pos)
  IN  \A i \in 1..Len(pl) : undo_move(make_move(pos, pl[i])) = pos

\* C2: after any sequence of make_move / undo_move calls on legal moves the
\* incrementally maintained hash equals Zobrist.compute of the position.
C2_ZobristMatchesCompute == pos.zobrist = Zobrist_compute(pos)

\* C3: after make_move of a legal move the incrementally maintained
\* (mg, eg, phase) equal eval_components of the resulting position.
C3_EvalComponentsMatch ==
  pos.move_stack # <<>> =>
    [mg |-> pos.mg, eg |-> pos.eg, phase |-> pos.phase] = eval_components(pos)

\* The masks of p are pairwise disjoint, the occupancies are the unions of
\* their masks and each side has exactly one king.
BoardsConsistent(p) ==
  /\ \A a, b \in 0..11 : a # b => p.bitboards[a] \cap p.bitboards[b] = {}
  /\ p.white_occupancy = UNION { p.bitboards[a] : a \in 0..5 }
  /\ p.black_occupancy = UNION { p.bitboards[a] : a \in 6..11 }
  /\ p.all_occupancy = p.white_occupancy \cup p.black_occupancy
  /\ Cardinality(p.bitboards[5]) = 1
  /\ Cardinality(p.bitboards[11]) = 1

\* C4: in every position reached from a FEN-parsed legal position by legal
\* make_move calls and matching undo_move calls, the twelve masks are pairwise
\* disjoint, each occupancy is the union of its masks and each side has
\* exactly one king.
C4_BoardInvariant == LegalPosition(Root) => BoardsConsistent(pos)

\* C4 witness: a legal root, two moves made, the first one a capture and the
\* second one the recapture on the same square.
C4_Witness ==
  /\ LegalPosition(Root)
  /\ Len(pos.move_stack) = 2
  /\ pos.move_stack[1].move.capture_piece # None
  /\ LastMove.capture_piece # None
  /\ LastMove.to_sq = pos.move_stack[1].move.to_sq

\* What the caller of search() can see of a position: boards, side to move,
\* castling rights, en-passant square, clocks, Zobrist hash and the depth of
\* the undo stack.
Observable(p) ==
  <<p.bitboards, p.white_occupancy, p.black_occupancy, p.all_occupancy,
    p.side_to_move, p.castling_rights, p.ep_square, p.halfmove_clock,
    p.fullmove_number, p.zobrist, Len(p.move_stack)>>

\* C5: whenever search() returns, after the depth limit, the deadline or
\* request_stop(), every make_move of alphabeta, qsearch and get_pv has been
\* undone: the undo stack has the depth it had at the call and the position
\* (boards, side, rights, ep, clocks, Zobrist) is the one passed in.
C5_SearchRestoresPosition == pc = "done" => Observable(pos) = Observable(Root)

\* request_stop() has been called on the running search.
StopPending == shell # "ready"

\* C6: a request_stop() made while the worker is alive is observed whatever
\* the interleaving, a stop issued before search() ran its first statements
\* included: the next entry of alphabeta or qsearch sets out_of_time, and
\* once out_of_time is set search() starts no further root call, so it
\* returns and join() completes.
C6_StopIsObserved ==
  [][ /\ (StopPending /\ pc = "wait" /\ stack[Len(stack)].pc = "enter")
           => self'.out_of_time
      /\ (StopPending /\ self.out_of_time /\ pc # "wait") => pc' # "wait"
    ]_vars

\* C7: search() returns best_move = None only if the root has no legal move;
\* with a legal move at the root the returned best_move is a legal root move,
\* for every depth, time limit and moment of request_stop().
C7_BestMoveIsLegalRootMove ==
  (pc = "done" /\ generate_legal_moves(Root) # <<>>)
    => loc.best_move \in Range(generate_legal_moves(Root))

\* C8: best_move and score of search() change only at the end of an iteration
\* that finished with neither out_of_time nor stop_requested set, where score
\* becomes the value the root call returned and best_move the move stored for
\* the root, so an aborted iteration leaves both alone and the values
\* returned are those of the last finished iteration; the iteration depth
\* only ever goes up by one, starting from 1.
C8_OnlyFinishedIterationsRecord ==
  [][ /\ (loc'.best_move # loc.best_move \/ loc'.score # loc.score)
           => /\ pc = "iter_end"
              /\ ~self.out_of_time /\ ~self.stop_requested
              /\ loc'.score = loc.s
              /\ loc'.best_move \in {loc.best_move, DictGet(self.tt, pos.zobrist, [best_move |-> NoMove]).best_move}
      /\ loc'.d # loc.d => (pc = "iter" /\ loc'.d = loc.d + 1 /\ pc' = "wait")
      /\ (pc = "iter_end" /\ (self.out_of_time \/ self.stop_requested) /\ pc' # pc)
           => pc' = "done"
    ]_vars

\* C8 witness: search() has returned from a second iteration that was aborted
\* after its root call had come back with a value other than the first
\* iteration's; the result is still the first iteration's.
C8_Witness ==
  /\ pc = "done"
  /\ loc.d = 2
  /\ self.out_of_time
  /\ loc.best_move # NoMove
  /\ loc.s # loc.score

\* The moves of generate_pseudo_legal_moves after which no king of the mover
\* stands on a square the opponent attacks, decided on the position that
\* make_move produces.
SafeMoves(p) ==
  LET mover == p.side_to_move
      Safe(mv) ==
        LET after == make_move(p, mv)
        IN  \A k \in after.bitboards[IF mover = WHITE THEN 5 ELSE 11] :
              ~is_square_attacked_by(1 - mover, k, after)
  IN  SelectSeq(generate_pseudo_legal_moves(p), Safe)

\* C9: generate_legal_moves returns exactly the pseudo-legal moves after which
\* the mover's king is not attacked by the opponent, none dropped, none kept
\* wrongly, in the order of generation.
C9_LegalIsSafeSubset == generate_legal_moves(pos) = SafeMoves(pos)

\* C9 witness: after a move, a position in which the filter drops some
\* pseudo-legal moves and keeps others.
C9_Witness ==
  /\ pos.move_stack # <<>>
  /\ Len(generate_legal_moves(pos)) > 0
  /\ Len(generate_legal_moves(pos)) < Len(generate_pseudo_legal_moves(pos))

\* What a generated castling move mv of position p must satisfy.
CastlingSound(p, mv) ==
  LET side == p.side_to_move
      king == IF side = WHITE THEN 5 ELSE 11
      rook == IF side = WHITE THEN 3 ELSE 9
      home == IF side = WHITE THEN 4 ELSE 60
      short == mv.to_sq = home + 2
      right == IF side = WHITE THEN (IF short THEN CR_WK ELSE CR_WQ)
                               ELSE (IF short THEN CR_BK ELSE CR_BQ)
      rook_sq == IF short THEN home + 3 ELSE home - 4
      between == IF short THEN {home + 1, home + 2} ELSE {home - 1, home - 2, home - 3}
      passed == IF short THEN {home, home + 1, home + 2} ELSE {home, home - 1, home - 2}
  IN  /\ mv.piece = king
      /\ mv.from_sq = home
      /\ mv.to_sq \in {home + 2, home - 2}
      /\ HasBit(p.castling_rights, right)
      /\ between \cap p.all_occupancy = {}
      /\ rook_sq \in p.bitboards[rook]
      /\ mv.from_sq \in p.bitboards[king]
      /\ \A sq \in passed : ~is_square_attacked_by(1 - side, sq, p)

\* C10: a castling move is generated only if its right is set, the squares
\* between king and rook are empty, the rook is at home, the king stands on
\* the e-file square the move starts from, and the king's origin, transit and
\* destination squares are not attacked; the move has piece = own king,
\* to = the g- or c-file square and is_castling set.
C10_CastlingOnlyWhenSound ==
  LET pl == generate_pseudo_legal_moves(pos)
  IN  \A i \in 1..Len(pl) : pl[i].is_castling => CastlingSound(pos, pl[i])


\* ------------------------------------------------ castling rights over time
\* The step is a make_move: the undo stack has grown by one entry.
IsMakeStep == Len(pos'.move_stack) = Len(pos.move_stack) + 1

\* The move a make_move step has just made.
MadeMove == pos'.move_stack[Len(pos'.move_stack)].move

CRBits == {CR_WK, CR_WQ, CR_BK, CR_BQ}

\* The home square of the rook that castling right `bit` belongs to.
RookHome(bit) ==
  CASE bit = CR_WK -> 7 [] bit = CR_WQ -> 0 [] bit = CR_BK -> 63 [] bit = CR_BQ -> 56

\* The side (WHITE / BLACK) castling right `bit` belongs to.
RightSide(bit) == IF bit \in {CR_WK, CR_WQ} THEN WHITE ELSE BLACK

\* C11: along make_move calls castling_rights only loses bits: no make_move
\* sets a right that was clear before it; a king move (castling included)
\* clears both rights of the mover, a rook leaving a1/h1/a8/h8 clears the
\* matching right of the mover, and a capture of an enemy rook on its home
\* square clears the matching right of the enemy.
C11_RightsOnlyLost ==
  [][ IsMakeStep =>
        \A bit \in CRBits :
          /\ HasBit(pos'.castling_rights, bit) => HasBit(pos.castling_rights, bit)
          /\ (RightSide(bit) = pos.side_to_move /\ MadeMove.piece % 6 = 5)
               => ~HasBit(pos'.castling_rights, bit)
          /\ (RightSide(bit) = pos.side_to_move /\ MadeMove.piece % 6 = 3
                 /\ MadeMove.from_sq = RookHome(bit))
               => ~HasBit(pos'.castling_rights, bit)
          /\ (RightSide(bit) # pos.side_to_move /\ MadeMove.capture_piece # None
                 /\ MadeMove.capture_piece % 6 = 3 /\ MadeMove.to_sq = RookHome(bit))
               => ~HasBit(pos'.castling_rights, bit)
    ]_vars

\* C11 witness: a rook has just been captured on its home square while its
\* side still held the matching right, and the right is gone.
C11_Witness ==
  /\ pos.move_stack # <<>>
  /\ LastMove.capture_piece # None
  /\ LastMove.capture_piece % 6 = 3
  /\ \E bit \in CRBits :
       /\ RookHome(bit) = LastMove.to_sq
       /\ RightSide(bit) = pos.side_to_move
       /\ HasBit(pos.move_stack[Len(pos.move_stack)].prev_castling_rights, bit)
       /\ ~HasBit(pos.castling_rights, bit)


\* ------------------------------------------------------- the ep square
\* C12: after make_move(mv) the ep square is set if and only if mv is a
\* double push, and then it is the square the pawn passed over (from + 8 for
\* white, from - 8 for black, the square between from and to); so an ep
\* square set by one move is gone after the next make_move unless that one
\* is a double push too.
C12_EpOnlyAfterDoublePush ==
  [][ IsMakeStep =>
        /\ (pos'.ep_square # None) <=> MadeMove.is_double_push
        /\ MadeMove.is_double_push =>
             /\ pos'.ep_square = (IF pos.side_to_move = WHITE THEN MadeMove.from_sq + 8
                                                               ELSE MadeMove.from_sq - 8)
             /\ 2 * pos'.ep_square = MadeMove.from_sq + MadeMove.to_sq
    ]_vars

\* C12 witness: a double push set the ep square and the next move, not a
\* double push, has cleared it.
C12_Witness ==
  /\ Len(pos.move_stack) = 2
  /\ pos.move_stack[1].move.is_double_push
  /\ pos.move_stack[2].prev_ep_square # None
  /\ ~pos.move_stack[2].move.is_double_push
  /\ pos.ep_square = None


\* ------------------------------------------------------------ FEN round trip
\* The ranks of a placement field, split at '/'.
RECURSIVE FenRanks(_, _)
FenRanks(chars, row) ==
  IF chars = <<>> THEN <<row>>
  ELSE IF Head(chars) = "/" THEN <<row>> \o FenRanks(Tail(chars), <<>>)
  ELSE FenRanks(Tail(chars), Append(row, Head(chars)))

\* A rank of piece letters and digits 1-8 that covers eight files, runs of
\* empties written as one digit.
RankWellFormed(row) ==
  /\ \A i \in 1..Len(row) :
        IsPieceChar(row[i]) \/ (IsDigit(row[i]) /\ DigitVal(row[i]) \in 1..8)
  /\ \A i \in 1..(Len(row) - 1) : ~(IsDigit(row[i]) /\ IsDigit(row[i + 1]))
  /\ SumSeq([i \in 1..Len(row) |-> IF IsDigit(row[i]) THEN DigitVal(row[i]) ELSE 1]) = 8
PlacementWellFormed(chars) ==
  LET Eight(ranks) == Len(ranks) = 8 /\ \A i \in 1..8 : RankWellFormed(ranks[i])
  IN  Eight(FenRanks(chars, <<>>))
SquareWellFormed(sq) ==
  /\ Len(sq) = 2
  /\ sq[1] \in {"a", "b", "c", "d", "e", "f", "g", "h"}
  /\ sq[2] \in {"1", "2", "3", "4", "5", "6", "7", "8"}
\* An optional sign and decimal digits.
IntegerText(chars) == ~IsError(ParseInt(chars))
\* Decimal digits with no sign and no leading zero.
PlainNumber(chars) ==
  /\ chars # <<>>
  /\ \A i \in 1..Len(chars) : IsDigit(chars[i])
  /\ Len(chars) > 1 => chars[1] # "0"
CastlingLetters == <<"K", "Q", "k", "q">>
LetterRank(ch) == CHOOSE i \in 1..4 : CastlingLetters[i] = ch

\* The six-field grammar of the FEN interface: placement, side w|b, castling
\* '-' or letters of KQkq, ep '-' or a square, a non-negative and a positive
\* integer.
GrammarFen(parts) ==
  /\ Len(parts) = 6
  /\ PlacementWellFormed(parts[1])
  /\ parts[2] \in {<<"w">>, <<"b">>}
  /\ \/ parts[3] = <<"-">>
     \/ parts[3] # <<>> /\ \A i \in 1..Len(parts[3]) : parts[3][i] \in Range(CastlingLetters)
  /\ parts[4] = <<"-">> \/ SquareWellFormed(parts[4])
  /\ IntegerText(parts[5]) /\ ParseInt(parts[5]).value >= 0
  /\ IntegerText(parts[6]) /\ ParseInt(parts[6]).value >= 1

\* A FEN of the grammar in its one standard spelling: the castling letters
\* once each in the order KQkq, the clocks as plain numbers.
CanonicalFen(parts) ==
  /\ GrammarFen(parts)
  /\ parts[3] # <<"-">> =>
       \A i \in 1..(Len(parts[3]) - 1) : LetterRank(parts[3][i]) < LetterRank(parts[3][i + 1])
  /\ PlainNumber(parts[5])
  /\ PlainNumber(parts[6])

\* C13 (as stated): for every FEN of the six-field grammar, from_fen yields
\* a position and to_fen of that position gives back the same six fields.
C13_RoundTrip ==
  (GrammarFen(fen) /\ pos # Unset) =>
    /\ ~IsError(pos)
    /\ ret # Unset => ret = fen

\* C13 (amended): for every FEN of the grammar in its standard spelling
\* (castling letters once each in the order KQkq, clocks without sign or
\* leading zero), from_fen yields a position and to_fen of that position
\* gives back the same six fields.
C13_CanonicalRoundTrip ==
  (CanonicalFen(fen) /\ pos # Unset) =>
    /\ ~IsError(pos)
    /\ ret # Unset => ret = fen

\* A standard FEN with castling rights and an ep square has made the round trip.
C13_Witness ==
  /\ CanonicalFen(fen)
  /\ fen[3] = <<"K", "q">>
  /\ fen[4] = <<"d", "6">>
  /\ fen[5] = <<"1", "2">>
  /\ ret # Unset
  /\ ret = fen


\* ------------------------------------------------------------ malformed FENs
\* The placement has a character that is no piece letter, digit or '/'.
BadPlacementChar(chars) ==
  \E i \in 1..Len(chars) : ~(IsPieceChar(chars[i]) \/ IsDigit(chars[i]) \/ chars[i] = "/")
\* The ep field is something other than '-' or file a-h followed by rank 1-8.
MalformedEp(sq) == sq # <<"-">> /\ ~SquareWellFormed(sq)

\* C14: from_fen raises, and yields no Position, for a FEN with a wrong field
\* count, an unknown piece letter or non-digit rank filler, a malformed ep
\* square, or a clock that is no integer.
C14_MalformedRejected ==
  (pos # Unset /\ (\/ Len(fen) # 6
                   \/ BadPlacementChar(fen[1])
                   \/ MalformedEp(fen[4])
                   \/ ~IntegerText(fen[5])
                   \/ ~IntegerText(fen[6])))
    => IsError(pos)


\* ------------------------------------------------- undo with nothing to undo
\* C15: undo_move on an empty undo stack raises and leaves the position as it
\* was; undo_move on a fresh clone raises too, whatever moves were made on
\* the original, and the clone keeps every field of the position it copied.
C15_UndoOnEmptyFails ==
  [][ /\ (pos.move_stack = <<>> /\ ret' # Unset /\ ret'.call = "undo_move")
          => (ret'.raised /\ pos' = pos)
      /\ (ret' # Unset /\ ret'.call = "clone.undo_move")
          => /\ ret'.raised
             /\ ret'.target.move_stack = <<>>
             /\ [ret'.target EXCEPT !.move_stack = pos.move_stack] = pos
             /\ pos' = pos ]_vars

\* undo_move has raised on a clone taken after two moves on the original.
C15_Witness ==
  /\ Len(pos.move_stack) = 2
  /\ ret # Unset
  /\ ret.call = "clone.undo_move"
  /\ ret.raised


\* ------------------------------------------------ static exchange evaluation
Sign(n) == IF n < 0 THEN -1 ELSE IF n > 0 THEN 1 ELSE 0
\* The squares strictly between s and t on a common rank, file or diagonal.
Between(s, t) ==
  LET df == File(t) - File(s)
      dr == Rank(t) - Rank(s)
      n == MaxInt(Abs(df), Abs(dr))
  IN  { s + k * (8 * Sign(dr) + Sign(df)) : k \in 1..(n - 1) }
\* By the rules of movement: piece p on s attacks t with the squares occ occupied.
PieceAttacks(p, s, t, occ) ==
  LET df == Abs(File(t) - File(s))
      dr == Abs(Rank(t) - Rank(s))
      diagonal == df = dr /\ df > 0 /\ Between(s, t) \cap occ = {}
      straight == (df = 0) # (dr = 0) /\ Between(s, t) \cap occ = {}
  IN  CASE p % 6 = 0 -> df = 1 /\ Rank(t) - Rank(s) = (IF p = 0 THEN 1 ELSE -1)
        [] p % 6 = 1 -> {df, dr} = {1, 2}
        [] p % 6 = 2 -> diagonal
        [] p % 6 = 3 -> straight
        [] p % 6 = 4 -> diagonal \/ straight
        [] OTHER -> MaxInt(df, dr) = 1
\* <<piece, square>> of every piece of side that stands on occ and attacks t.
Attackers(p, side, t, occ) ==
  { a \in ((6 * side)..(6 * side + 5)) \X (0..63) :
      a[2] \in (p.bitboards[a[1]] \cap occ) /\ PieceAttacks(a[1], a[2], t, occ) }
\* The least valuable of them: pawn before knight, bishop, rook, queen, king,
\* the lowest square among equals.
Cheapest(S) ==
  CHOOSE a \in S : \A b \in S : a[1] < b[1] \/ (a[1] = b[1] /\ a[2] <= b[2])
\* What side gains on t, where `victim` now stands, by taking with its
\* cheapest attacker or by not taking at all, the other side answering alike.
RECURSIVE Recapture(_, _, _, _, _)
Recapture(p, t, side, victim, occ) ==
  LET Take(a) == MaxInt(0, PieceValue(victim % 6)
                             - Recapture(p, t, 1 - side, a[1], occ \ {a[2]}))
      Try(S) == IF S = {} THEN 0 ELSE Take(Cheapest(S))
  IN  Try(Attackers(p, side, t, occ))
\* The exchange value of the capture mv: the captured piece, less what the
\* other side gains back on mv.to_sq once mover and captured piece are gone.
ExchangeValue(p, mv) ==
  LET side == p.side_to_move
      captured == IF mv.is_en_passant THEN (IF side = WHITE THEN 6 ELSE 0) ELSE mv.capture_piece
      cap_sq == IF ~mv.is_en_passant THEN mv.to_sq
                ELSE IF side = WHITE THEN mv.to_sq - 8 ELSE mv.to_sq + 8
  IN  PieceValue(captured % 6)
        - Recapture(p, mv.to_sq, 1 - side, mv.piece,
                    (p.all_occupancy \ {mv.from_sq, cap_sq}) \cup {mv.to_sq})

\* C16: see(pos, mv) is the exchange value of the capture mv, each side
\* taking with its least valuable attacker, through x-rays, or stopping; in
\* particular RxP against one bishop recapture is -400 and QxQ against one
\* equal recapture is 0.
C16_SeeIsExchangeValue ==
  (ret # Unset /\ ret.call = "see" /\ ret.mv.promotion = None) =>
    /\ ret.value = ExchangeValue(pos, ret.mv)
    /\ (fen = 1 /\ pos.move_stack = <<>>) => ret.value = -400
    /\ (fen = 2 /\ pos.move_stack = <<>>) => ret.value = 0


\* ------------------------------------------------- one Search, one thread
\* The threads that are inside searcher.search().
InSearch == { r \in 1..Len(reqs) : reqs[r].at = "in_search" }

\* C17: at no time are two threads inside search() of the same Search
\* object, whatever the interleaving of concurrent /move requests.
C17_OneSearchAtATime == Cardinality(InSearch) <= 1


PerftMatches(i) ==
  (fen = i /\ pos # Unset) =>
    /\ ~IsError(pos)
    /\ (ret # Unset /\ pos.move_stack = <<>>) => ret.count = PERFT[i].published[ret.depth]

\* C19 (as stated): the three test positions as the specification writes
\* them (Position 3 with the four fields '8/2p5/3p4/KP5r/1R3p1k/8/4P1P1/8 w
\* - -') parse, and their leaf counts are the published ones.
C19_PerftAsWritten == PerftMatches(1) /\ PerftMatches(2) /\ PerftMatches(3)

\* C19 (amended): the start position, Kiwipete, and Position 3 written with
\* all six fields ('... w - - 0 1') parse, and their leaf counts are the
\* published ones: 20 / 400 / 8902, 48 / 2039 and 14 / 191.
C19_PerftSixFields == PerftMatches(1) /\ PerftMatches(2) /\ PerftMatches(4)

\* Kiwipete has been counted to depth 2 at the root.
C19_Witness ==
  /\ fen = 2
  /\ pos # Unset
  /\ pos.move_stack = <<>>
  /\ ret # Unset
  /\ ret.depth = 2
  /\ ret.count = 2039


\* ------------------------------------------------------------ move ordering
\* The class of mv in the order the docstring of _move_order states, in
\* position p with TT move tt_move: 1 the TT move, 2 a promotion, 3 a capture
\* with SEE >= 0, 4 a quiet move, 5 a capture with SEE < 0.
OrderClass(p, tt_move, mv) ==
  IF tt_move # NoMove /\ MoveKey(mv) = MoveKey(tt_move) THEN 1
  ELSE IF mv.promotion # None THEN 2
  ELSE IF mv.capture_piece # None \/ mv.is_en_passant
    THEN (IF get_see_score(EmptyDict, p, mv).score >= 0 THEN 3 ELSE 5)
  ELSE 4
\* Among quiet moves: 1 the first killer of the ply, 2 the second, 3 the rest.
KillerRank(killers, ply, mv) ==
  LET km == DictGet(killers, ply, <<>>)
  IN  IF km # <<>> /\ MoveKey(mv) = km[1] THEN 1
      ELSE IF Len(km) > 1 /\ MoveKey(mv) = km[2] THEN 2
      ELSE 3
\* ordered runs through the classes in order, and through its quiet moves
\* killers first, the others by falling history score.
InClassOrder(ordered, p, tt_move, killers, history, ply) ==
  \A i, j \in 1..Len(ordered) : i < j =>
    LET ci == OrderClass(p, tt_move, ordered[i])
        cj == OrderClass(p, tt_move, ordered[j])
        ki == KillerRank(killers, ply, ordered[i])
        kj == KillerRank(killers, ply, ordered[j])
        H(mv) == DictGet(history, <<mv.from_sq, mv.to_sq>>, 0)
    IN  /\ ci <= cj
        /\ (ci = 4 /\ cj = 4) =>
             (ki <= kj /\ (ki = 3 /\ kj = 3 => H(ordered[i]) >= H(ordered[j])))

\* C20: whenever alphabeta or qsearch has its moves ordered, the list it gets
\* from _move_order is in the docstring's class order (TT move, promotions,
\* good captures, quiet moves with killers first and then by history, bad
\* captures), with the killer and history tables the search has built.
C20_MoveOrderFollowsDocstring ==
  [][ \A k \in 1..Len(stack) :
        (k <= Len(stack') /\ stack[k].ordered = <<>> /\ stack'[k].ordered # <<>>)
          => InClassOrder(stack'[k].ordered, Obj(Bundle, stack[k]), stack'[k].tt_move,
                          self.killers, self.history, stack[k].ply) ]_vars


\* ----------------------------------------------------------------- mobility
\* By the rules of movement: the number of (piece, attacked square) pairs of
\* side's knights, bishops, rooks and queens whose attacked square holds no
\* piece of side.
MobilityOf(p, side) ==
  LET own == IF side = WHITE THEN p.white_occupancy ELSE p.black_occupancy
  IN  Cardinality({ a \in ((6 * side + 1)..(6 * side + 4)) \X (0..63) \X (0..63) :
                      /\ a[2] \in p.bitboards[a[1]]
                      /\ a[3] \notin own
                      /\ PieceAttacks(a[1], a[2], a[3], p.all_occupancy) })

\* C21: _mobility_score(pos) is 2 x (white mobility - black mobility), each
\* side's mobility counting the squares its knights, bishops, rooks and
\* queens attack that its own pieces do not occupy; so it does not depend on
\* the side to move.
C21_MobilityIsSideIndependent ==
  (ret # Unset /\ ret.call = "_mobility_score")
    => ret.value = 2 * (MobilityOf(pos, WHITE) - MobilityOf(pos, BLACK))


\* ------------------------------------------------------------ terminal nodes
\* The innermost activation is alphabeta with depth >= 1 on a position whose
\* side to move has no legal move and whose key is not in the TT, nothing has
\* stopped the search, and this step is its return.
TerminalReturn ==
  /\ pc = "wait"
  /\ stack # <<>>
  /\ LET f == stack[Len(stack)]
     IN  /\ f.fn = "ab"
         /\ f.pc \in {"enter", "null"}
         /\ f.depth >= 1
         /\ generate_legal_moves(Obj(Bundle, f)) = <<>>
         /\ Obj(Bundle, f).zobrist \notin DOMAIN self.tt
  /\ ~self.stop_requested
  /\ ~self.out_of_time
  /\ ~self'.out_of_time
  /\ Len(stack') = Len(stack) - 1
\* What that return hands to the caller.
Returned == IF stack' = <<>> THEN loc'.s ELSE stack'[Len(stack')].ret

AspirationBody ==
  /\ pc = "asp"
  /\ pc' # "asp"
  /\ loc.d > 1
  /\ ~self.out_of_time
  /\ ~self.stop_requested
FailLow == loc.s <= loc.a /\ loc.a > -MATE_SCORE
FailHigh == loc.s >= loc.b /\ loc.b < MATE_SCORE
\* The window of an iteration of depth > 1 starts at prev_score -/+ 50; a
\* fail-low doubles delta and lowers a, not below -MATE_SCORE, and keeps b; a
\* fail-high doubles delta and raises b, not above MATE_SCORE, and keeps a;
\* the loop is left only with a < s < b or with the failed bound at its limit.
AspirationWidens ==
  [][ /\ (pc = "iter" /\ pc' = "wait" /\ loc'.d > 1) =>
           /\ loc'.a = loc.prev_score - 50
           /\ loc'.b = loc.prev_score + 50
           /\ loc'.delta = 50
      /\ (AspirationBody /\ FailLow) =>
           /\ pc' = "wait"
           /\ loc'.delta = 2 * loc.delta
           /\ loc'.a < loc.a
           /\ loc'.a >= -MATE_SCORE
           /\ loc'.b = loc.b
      /\ (AspirationBody /\ ~FailLow /\ FailHigh) =>
           /\ pc' = "wait"
           /\ loc'.delta = 2 * loc.delta
           /\ loc'.b > loc.b
           /\ loc'.b <= MATE_SCORE
           /\ loc'.a = loc.a
      /\ (AspirationBody /\ pc' = "iter_end") =>
           \/ loc.a < loc.s /\ loc.s < loc.b
           \/ loc.s <= loc.a /\ loc.a = -MATE_SCORE
           \/ loc.s >= loc.b /\ loc.b = MATE_SCORE ]_vars

\* C23: for every iteration of depth > 1 the aspiration loop terminates, and
\* it widens as stated: from [prev_score - 50, prev_score + 50], a fail-low
\* doubling delta and strictly lowering a (floored at -MATE_SCORE), a
\* fail-high doubling delta and strictly raising b (capped at MATE_SCORE), the
\* exit only with a < s < b or a saturated failed bound.
C23_AspirationTerminates ==
  /\ AspirationWidens
  /\ (pc = "wait" /\ loc.d > 1) ~> (pc = "iter_end")

\* The loop of a depth-3 iteration was left after fail-lows took a down to
\* -MATE_SCORE.
C23_Witness ==
  /\ pc = "iter_end"
  /\ loc.d > 1
  /\ ~self.out_of_time
  /\ ~self.stop_requested
  /\ loc.a = -MATE_SCORE
  /\ loc.delta > 50
  /\ loc.b = loc.prev_score + 50


\* ------------------------------------------------------- transposition table
\* This step is the return of the innermost alphabeta from its move loop.
LoopReturn ==
  /\ pc = "wait"
  /\ stack # <<>>
  /\ stack[Len(stack)].fn = "ab"
  /\ stack[Len(stack)].pc \in {"first", "zero", "full", "reduced"}
  /\ Len(stack') < Len(stack)
\* The entry that return leaves in the TT is the node's: f the activation
\* before the step, p its position after the step (the last move undone).
NodeEntry(f, p) ==
  LET e == self'.tt[p.zobrist]
      mv == f.ordered[f.idx]
      score == -f.ret
  IN  /\ p.zobrist \in DOMAIN self'.tt
      /\ e.key = p.zobrist
      /\ e.depth = f.depth
      /\ e.score = MaxInt(f.best_score, score)
      /\ e.best_move = (IF score > f.best_score THEN mv ELSE f.best_move)
      /\ e.best_move # NoMove
      /\ (e.flag = UPPER) = (e.score <= f.a0)
      /\ (e.flag = LOWER) = (e.score >= f.beta)
      /\ (e.flag = EXACT) = (f.a0 < e.score /\ e.score < f.beta)
      /\ DOMAIN self'.tt = DOMAIN self.tt \cup {p.zobrist}
      /\ \A k \in DOMAIN self.tt \ {p.zobrist} : self'.tt[k] = self.tt[k]

\* C24: every TT entry is written by an alphabeta leaving its move loop; it
\* is keyed by the node's Zobrist hash, has the node's depth, the best score
\* and the move that achieved it, the flag UPPER iff best_score <= the alpha
\* at the start of the move loop, LOWER iff best_score >= beta, EXACT iff
\* strictly between; and it replaces whatever entry the key had.
C24_TTEntryOfNode ==
  [][ /\ LoopReturn =>
           NodeEntry(stack[Len(stack)],
                     IF stack[Len(stack)].obj = 0 THEN pos'
                     ELSE null_pos'[stack[Len(stack)].obj])
      /\ self'.tt # self.tt => LoopReturn ]_vars


\* ------------------------------------------------------------ cancelled search
\* C25: an alphabeta whose subtree was cut short by request_stop() (one of
\* its children came back with out_of_time set; no deadline is in play)
\* leaves its move loop without writing to the transposition table and
\* without touching killers or history.
C25_CancelledNodeWritesNothing ==
  [][ (LoopReturn /\ self.out_of_time /\ ~self.deadline) =>
        /\ self'.tt = self.tt
        /\ self'.killers = self.killers
        /\ self'.history = self.history ]_vars


\* ------------------------------------------------------- killers and history
\* Every killer list has one or two entries, all different, each with no
\* promotion piece.
KillersWellFormed ==
  \A ply \in DOMAIN self.killers :
    LET km == self.killers[ply]
    IN  /\ Len(km) \in 1..2
        /\ \A i, j \in 1..Len(km) : i # j => km[i] # km[j]
        /\ \A i \in 1..Len(km) : km[i][3] = None
HistoryNonNegative == \A k \in DOMAIN self.history : self.history[k] \in Nat
\* The killer lists change only when an alphabeta leaves its move loop on a
\* quiet move mv with score >= beta; then mv heads the list of that ply, the
\* former head follows it if it is another move, and no other ply changes.
KillersFromCutoffs ==
  [][ self'.killers # self.killers =>
        /\ LoopReturn
        /\ LET f == stack[Len(stack)]
               mv == f.ordered[f.idx]
               old == DictGet(self.killers, f.ply, <<>>)
               new == self'.killers[f.ply]
           IN  /\ is_quiet(mv)
               /\ -f.ret >= f.beta
               /\ new[1] = MoveKey(mv)
               /\ (old # <<>> /\ old[1] # MoveKey(mv)) => (Len(new) = 2 /\ new[2] = old[1])
               /\ \A q \in DOMAIN self.killers \ {f.ply} : self'.killers[q] = self.killers[q] ]_vars

\* C26: the killer list of every ply holds at most two entries, pairwise
\* distinct, each the (from, to, promotion) of a quiet move that caused a
\* beta cutoff at that ply, the most recent one at the head; every history
\* value is a non-negative integer.
C26_KillersAndHistory ==
  /\ [](KillersWellFormed /\ HistoryNonNegative)
  /\ KillersFromCutoffs

\* Some ply has two killers and some move a positive history value.
C26_Witness ==
  /\ \E ply \in DOMAIN self.killers : Len(self.killers[ply]) = 2
  /\ \E k \in DOMAIN self.history : self.history[k] > 0


\* -------------------------------------------------------------------- get_pv
\* The position after the moves of pv are played from p.
RECURSIVE Played(_, _)
Played(p, pv) == IF pv = <<>> THEN p ELSE Played(make_move(p, Head(pv)), Tail(pv))
\* Every move of pv is the TT's best move for, and a legal move of, the
\* position it is played in, and no (from, to, promotion) comes twice.
PvFollowsTT(tt, p, pv) ==
  /\ \A i \in 1..Len(pv) :
       LET q == Played(p, SubSeq(pv, 1, i - 1))
       IN  /\ q.zobrist \in DOMAIN tt
           /\ tt[q.zobrist].best_move = pv[i]
           /\ \E m \in Range(generate_legal_moves(q)) : m = pv[i]
  /\ \A i, j \in 1..Len(pv) : i # j => MoveKey(pv[i]) # MoveKey(pv[j])
\* The line is as long as asked, or ends where the TT has no entry, no best
\* move, or a best move already in the line.
PvEnds(tt, p, pv, max_len) ==
  LET q == Played(p, pv)
  IN  \/ Len(pv) = max_len
      \/ q.zobrist \notin DOMAIN tt
      \/ tt[q.zobrist].best_move = NoMove
      \/ \E i \in 1..Len(pv) : MoveKey(pv[i]) = MoveKey(tt[q.zobrist].best_move)

\* C27: get_pv(pos, max_len) on a TT filled by search returns at most
\* max_len moves, each legal where it is played, stops at a missing entry, a
\* missing best move or a repeated (from, to, promotion), and leaves pos as
\* it found it: boards, side, rights, ep, clocks, Zobrist and undo stack
\* depth.
C27_GetPv ==
  (ret # Unset /\ ret.call = "get_pv") =>
    /\ Len(ret.pv) <= ret.max_len
    /\ PvFollowsTT(self.tt, ret.before, ret.pv)
    /\ PvEnds(self.tt, ret.before, ret.pv, ret.max_len)
    /\ Observable(pos) = Observable(ret.before)

\* get_pv was asked for more moves than the two it found.
C27_Witness ==
  /\ ret # Unset
  /\ ret.call = "get_pv"
  /\ Len(ret.pv) = 2
  /\ ret.max_len > 2


\* ----------------------------------------------------------------- see_cache
\* _get_see_score on an empty cache: the SEE score of mv on p.
FreshSee(p, mv) == get_see_score(EmptyDict, p, mv).score
\* The loop of qsearch from ordered[i] on, up to the next move it makes,
\* takes from cache a score that is not the SEE score of the move on p.
RECURSIVE StaleRead(_, _, _, _)
StaleRead(cache, p, ordered, i) ==
  IF i > Len(ordered) THEN FALSE
  ELSE LET mv == ordered[i]
           key == MoveKey(mv)
       IN  IF mv.promotion # None THEN FALSE
           ELSE IF key \in DOMAIN cache
             THEN \/ cache[key] # FreshSee(p, mv)
                  \/ cache[key] < 0 /\ StaleRead(cache, p, ordered, i + 1)
             ELSE FreshSee(p, mv) < 0 /\ StaleRead(cache, p, ordered, i + 1)

\* C28: a SEE score that qsearch takes from see_cache for a move equals the
\* SEE of the move on the position at that node; an entry a recursive
\* qsearch call cached for another position is never used by the parent.
C28_SeeCacheIsOfThisNode ==
  AtSite("qs", "qs_move") =>
    LET f == Top(Bundle)
    IN  (-f.ret < f.beta) =>
          ~StaleRead(self.see_cache, undo_move(Obj(Bundle, f)), f.ordered, f.idx + 1)


\* ------------------------------------------------------------- UCI move text
\* C29: for every legal move m, find_legal_move(pos, move_to_uci(m)) is a
\* legal move with the from-square, to-square and promotion piece of m, and
\* never None.
C29_UciRoundTrip ==
  (ret # Unset /\ ret.call = "find_legal_move") =>
    /\ ret.value # NoMove
    /\ \E m \in Range(generate_legal_moves(pos)) : m = ret.value
    /\ MoveKey(ret.value) = MoveKey(ret.move)


\* ------------------------------------------------------ copy-make and make
\* The fields the two ways of making a move are compared in.
Board(p) ==
  <<p.bitboards, p.white_occupancy, p.black_occupancy, p.all_occupancy,
    p.side_to_move, p.castling_rights, p.ep_square, p.halfmove_clock,
    p.fullmove_number, p.zobrist>>

\* C30: for every pseudo-legal move, apply_move_clone(pos, mv) and
\* pos.make_move(mv) give the same bitboards, occupancies, side to move,
\* castling rights, ep square, clocks and Zobrist hash, and apply_move_clone
\* leaves pos, its undo stack included, unchanged.
C30_CopyMakeEqualsMake ==
  [][(ret' # Unset /\ ret'.call = "apply_move_clone" /\ ret' # ret) =>
       /\ Board(ret'.value) = Board(ret'.made)
       /\ pos' = pos]_vars

====
